---- MODULE Spec2Model ----
(***************************************************************************)
(* Model of the sunside shadow analyzer: the ray caster                    *)
(* (buildings/shadow_analyzer.py), the building geometry converter         *)
(* (buildings/geometry_converter.py), the terrain generator                *)
(* (buildings/terrain_generator.py), and the REST facade with its          *)
(* main-thread queue (api/api_server.py, ui/extension.py).                 *)
(*                                                                         *)
(* Numbers.  The program computes in floating point; the model computes    *)
(* exactly, in integers and in fractions [num, den] with den > 0.          *)
(* Scene lengths of the ray caster are integers in units of 1/Scale metre, *)
(* so that the 0.1 m lift of the ray origin is one unit.  Optional values  *)
(* (Python's None) are sets: {} is None and {v} is the value v.            *)
(***************************************************************************)
EXTENDS Integers, Sequences, FiniteSets, TLC

VARIABLES
    stage_buildings,    \* the prim /World/Buildings: exists, custom data, child meshes
    stage_terrain,      \* the prim /World/Terrain: exists, points
    ray_out,            \* the last call of ShadowAnalyzer.is_point_in_shadow and its result
    converter,          \* the BuildingGeometryConverter: its reference point
    terrain_generator,  \* the TerrainMeshGenerator: the grid it stored and its reference
    geo_out,            \* the last call on the converter or the generator and its result
    request_queue,      \* ShadowAnalyzerAPI.request_queue: tasks waiting for the main thread
    result_map,         \* ShadowAnalyzerAPI.result_map: request_id -> result
    next_request_id,    \* ShadowAnalyzerAPI.next_request_id
    clients,            \* the query_shadow handlers: where each one stands
    last_response,      \* the response the last step of a query_shadow handler returned
    ui,                 \* the UI extension: where the combined map load stands, the
                        \* buildings before it and those its queries ran against
    query_log,          \* the queries the last step ran on the main thread, and the label
    building_loader,    \* the BuildingLoader: its in-memory cache and its last call
    terrain_loader      \* the TerrainLoader: its in-memory cache and its last call

stageVars == <<stage_buildings, stage_terrain>>
rayVars == <<ray_out>>
geoVars == <<converter, terrain_generator, geo_out>>
serverVars == <<request_queue, result_map, next_request_id, clients, last_response>>
uiVars == <<ui, query_log>>
loaderVars == <<building_loader, terrain_loader>>

vars == <<stage_buildings, stage_terrain, ray_out, converter, terrain_generator, geo_out,
          request_queue, result_map, next_request_id, clients, last_response, ui, query_log,
         building_loader, terrain_loader>>

----------------------------------------------------------------------------
(* Exact arithmetic *)

Abs(n) == IF n < 0 THEN -n ELSE n

RECURSIVE GCD(_, _)
GCD(a, b) == IF b = 0 THEN a ELSE GCD(b, a % b)

\* the fraction n/d (d # 0) in lowest terms with a positive denominator
Frac(n, d) ==
    CHOOSE out \in
      { [num |-> (IF dd < 0 THEN -nn ELSE nn) \div g, den |-> Abs(dd) \div g] :
          nn \in {n}, dd \in {d}, g \in {GCD(Abs(n), Abs(d))} } : TRUE

FracLess(a, b) == a.num * b.den < b.num * a.den
FracEq(a, b) == a.num * b.den = b.num * a.den
FracOfInt(n) == [num |-> n, den |-> 1]

\* math.sqrt on the perfect squares (the only arguments the model passes)
Sqrt(n) == CHOOSE r \in 0..n : r * r = n
IsSquare(n) == \E r \in 0..n : r * r = n

\* n / d where the quotient is an integer; no value otherwise
ExactDiv(n, d) == CHOOSE q \in {n \div d} : q * d = n

Sub(a, b) == <<a[1] - b[1], a[2] - b[2], a[3] - b[3]>>
Cross(a, b) == <<a[2] * b[3] - a[3] * b[2],
                 a[3] * b[1] - a[1] * b[3],
                 a[1] * b[2] - a[2] * b[1]>>
Dot(a, b) == a[1] * b[1] + a[2] * b[2] + a[3] * b[3]

----------------------------------------------------------------------------
(* ShadowAnalyzer (shadow_analyzer.py) *)

\* scene units per metre: the ray origin is lifted by 0.1 m = one unit
Scale == 10
\* epsilon = 1e-6 = 1 / EpsDen
EpsDen == 1000000

\* abs(a) < epsilon for a = A / len in units^2, that is A / (len * Scale^2) in m^2:
\* |A| * EpsDen < len * Scale^2
AbsLessThanEpsilon(A, len) == Abs(A) <= (len * Scale * Scale - 1) \div EpsDen

NoT == [hit |-> FALSE, t |-> FracOfInt(0)]
SomeT(t) == [hit |-> TRUE, t |-> t]

\* A ray direction is the integer vector v divided by len (len > 0).
\* The Moller-Trumbore computation up to the distance t, without the final
\* test on t: "parallel", "outside" (a barycentric test failed) or "t".
MollerTrumboreOf(edge1, edge2, s, ray_direction) ==
    LET H == Cross(ray_direction.v, edge2)      \* h = H / len
        A == Dot(edge1, H)                       \* a = A / len, in units^2
        sg == IF A < 0 THEN -1 ELSE 1
        UN == sg * Dot(s, H)                     \* u = UN / |A|
        q == Cross(s, edge1)
        VN == sg * Dot(ray_direction.v, q)       \* v = VN / |A|
        TN == sg * ray_direction.len * Dot(edge2, q)   \* t = TN / |A|, in units
    IN  IF AbsLessThanEpsilon(A, ray_direction.len)
        THEN [kind |-> "parallel", t |-> FracOfInt(0)]
        ELSE IF UN < 0 \/ UN > Abs(A)
        THEN [kind |-> "outside", t |-> FracOfInt(0)]
        ELSE IF VN < 0 \/ UN + VN > Abs(A)
        THEN [kind |-> "outside", t |-> FracOfInt(0)]
        ELSE [kind |-> "t", t |-> Frac(TN, Abs(A))]

MollerTrumbore(ray_origin, ray_direction, v0, v1, v2) ==
    CHOOSE out \in
      { MollerTrumboreOf(edge1, edge2, s, d) :
          edge1 \in {Sub(v1, v0)}, edge2 \in {Sub(v2, v0)},
          s \in {Sub(ray_origin, v0)}, d \in {ray_direction} } : TRUE

\* t > 1e-6 (metres) for a distance t in scene units: t.num / (t.den * Scale) > 1 / EpsDen
GreaterThanEpsilon(t) == t.num > 0 /\ (t.den * Scale) \div EpsDen < t.num

\* t < m for an integer m
LessThanInt(t, m) == t.num < 0 \/ t.num \div t.den < m

\* the distance is returned whatever its sign
RayTriangleIntersectAnyT(ray_origin, ray_direction, v0, v1, v2) ==
    CHOOSE out \in
      { IF r.kind = "t" THEN SomeT(r.t) ELSE NoT :
          r \in {MollerTrumbore(ray_origin, ray_direction, v0, v1, v2)} } : TRUE

RayTriangleIntersect(ray_origin, ray_direction, v0, v1, v2) ==
    CHOOSE out \in
      { IF r.kind = "t" /\ GreaterThanEpsilon(r.t) THEN SomeT(r.t) ELSE NoT :
          r \in {MollerTrumbore(ray_origin, ray_direction, v0, v1, v2)} } : TRUE

RECURSIVE SumTo(_, _)
SumTo(s, k) == IF k = 0 THEN 0 ELSE s[k] + SumTo(s, k - 1)

\* the vertex indices of face f: face_indices[index_offset : index_offset + face_count]
FaceVerts(face_counts, face_indices, f) ==
    SubSeq(face_indices, SumTo(face_counts, f - 1) + 1, SumTo(face_counts, f))

\* the fan triangles of a face, for i in range(1, face_count - 1)
FanTriangles(points, face_verts) ==
    [i \in 1..(Len(face_verts) - 2) |->
        <<points[face_verts[1] + 1], points[face_verts[i + 1] + 1], points[face_verts[i + 2] + 1]>>]

RECURSIVE MeshTriangles(_, _, _, _)
MeshTriangles(points, face_counts, face_indices, f) ==
    IF f > Len(face_counts) THEN <<>>
    ELSE (IF face_counts[f] < 3 THEN <<>>
          ELSE FanTriangles(points, FaceVerts(face_counts, face_indices, f)))
         \o MeshTriangles(points, face_counts, face_indices, f + 1)

\* 0 < t <= max_distance
AcceptTInclusive(t, max_distance) ==
    t.num > 0 /\ (t.num + t.den - 1) \div t.den <= max_distance

\* 0 < t < max_distance
AcceptT(t, max_distance) == t.num > 0 /\ LessThanInt(t, max_distance)

\* Evaluation note: a value used more than once is bound through a
\* singleton set ({e : x \in {value}}), so that it is computed once.

\* the loop body of _intersect_mesh over the triangles k..Len(tris)
RECURSIVE IntersectLoop(_, _, _, _, _, _)
IntersectLoop(ray_origin, ray_direction, tris, max_distance, k, closest_t) ==
    IF k > Len(tris) THEN closest_t
    ELSE CHOOSE out \in
           { IntersectLoop(ray_origin, ray_direction, tris, max_distance, k + 1,
                 IF /\ t.hit
                    /\ AcceptT(t.t, max_distance)
                    /\ (~c.hit \/ FracLess(t.t, c.t))
                 THEN SomeT(t.t) ELSE c) :
             t \in {RayTriangleIntersect(ray_origin, ray_direction,
                                         tris[k][1], tris[k][2], tris[k][3])},
             c \in {closest_t} } : TRUE

\* the first triangle of the mesh is never tested
IntersectMeshSkipFirst(ray_origin, ray_direction, points, face_counts, face_indices, max_distance) ==
    CHOOSE out \in
      { IntersectLoop(o, d, tris, m, 2, NoT) :
          o \in {ray_origin}, d \in {ray_direction}, m \in {max_distance},
          tris \in {MeshTriangles(points, face_counts, face_indices, 1)} } : TRUE

IntersectMesh(ray_origin, ray_direction, points, face_counts, face_indices, max_distance) ==
    CHOOSE out \in
      { IntersectLoop(o, d, tris, m, 1, NoT) :
          o \in {ray_origin}, d \in {ray_direction}, m \in {max_distance},
          tris \in {MeshTriangles(points, face_counts, face_indices, 1)} } : TRUE

NoHit == [hit |-> FALSE, distance |-> FracOfInt(0), path |-> <<>>]

\* hit_distance <= closest_distance: a tie replaces the earlier mesh
CloserOrEqual(hit_distance, closest_distance) == ~FracLess(closest_distance, hit_distance)

\* hit_distance < closest_distance
Closer(hit_distance, closest_distance) == FracLess(hit_distance, closest_distance)

\* the loop of _cast_ray_against_buildings over the children k..Len(meshes);
\* closest carries closest_hit and closest_distance (max_distance at first)
RECURSIVE CastLoop(_, _, _, _, _, _)
CastLoop(origin, direction, meshes, max_distance, k, closest) ==
    IF k > Len(meshes) THEN closest.closest_hit
    ELSE CHOOSE out \in
           { CastLoop(origin, direction, meshes, max_distance, k + 1,
                 IF hit_result.hit /\ Closer(hit_result.t, c.closest_distance)
                 THEN [closest_hit |-> [hit |-> TRUE, distance |-> hit_result.t,
                                        path |-> meshes[k].path],
                       closest_distance |-> hit_result.t]
                 ELSE c) :
             hit_result \in {IF meshes[k].points = <<>> THEN NoT
                             ELSE IntersectMesh(origin, direction, meshes[k].points,
                                                meshes[k].face_counts, meshes[k].face_indices,
                                                max_distance)},
             c \in {closest} } : TRUE

CastRayAgainstBuildings(buildings_prim, origin, direction, max_distance) ==
    IF ~buildings_prim.exists THEN NoHit
    ELSE CHOOSE out \in
           { CastLoop(o, d, buildings_prim.meshes, max_distance, 1,
                      [closest_hit |-> NoHit, closest_distance |-> FracOfInt(max_distance)]) :
             o \in {origin}, d \in {direction} } : TRUE

\* ray_direction = -sun_direction, divided by its length when the length is > 0
RayDirection(sun_direction) ==
    LET neg == <<-sun_direction[1], -sun_direction[2], -sun_direction[3]>>
        length == Sqrt(Dot(neg, neg))
    IN  IF length > 0 THEN [v |-> neg, len |-> length] ELSE [v |-> neg, len |-> 1]

\* ray_origin = (point.x, point.y + 0.1, point.z)
RayOrigin(point) == <<point[1], point[2] + Scale \div 10, point[3]>>

IsPointInShadow(buildings_prim, point, sun_direction, max_distance) ==
    CHOOSE out \in
      { IF hit_result.hit
        THEN [is_shadowed |-> TRUE, blocking |-> {hit_result.path},
              distance |-> {hit_result.distance}]
        ELSE [is_shadowed |-> FALSE, blocking |-> {}, distance |-> {}] :
        hit_result \in {CastRayAgainstBuildings(buildings_prim, RayOrigin(point),
                                                RayDirection(sun_direction), max_distance)} } : TRUE

\* max_distance: float = 10000.0, the default of is_point_in_shadow
DefaultMaxDistance == 10000 * Scale

\* the lattice point of analyze_grid for the loop indices i and j
GridPoint(center, grid_size, grid_spacing, i, j) ==
    LET half_extent == ExactDiv((grid_size - 1) * grid_spacing, 2)
    IN  <<center[1] - half_extent + i * grid_spacing, center[2],
          center[3] - half_extent + j * grid_spacing>>

\* the list results of analyze_grid: i is the outer loop, j the inner one
GridResults(buildings_prim, center, grid_size, grid_spacing, sun_direction) ==
    [k \in 1..(grid_size * grid_size) |->
        CHOOSE entry \in
          { [point |-> point,
             is_shadowed |-> IsPointInShadow(buildings_prim, point, sun_direction,
                                             DefaultMaxDistance).is_shadowed] :
            point \in {GridPoint(center, grid_size, grid_spacing,
                                 (k - 1) \div grid_size, (k - 1) % grid_size)} } : TRUE]

\* analyze_grid: [raised, results, shadow_percentage]; the percentage, which
\* the function logs, is a fraction; with no results the division
\* shadowed_count / len(results) raises ZeroDivisionError
AnalyzeGrid(buildings_prim, center, grid_size, grid_spacing, sun_direction) ==
    CHOOSE out \in
      { IF Len(results) = 0
        THEN [raised |-> TRUE, results |-> <<>>, shadow_percentage |-> {}]
        ELSE [raised |-> FALSE, results |-> results,
              shadow_percentage |->
                  {Frac(Cardinality({ k \in 1..Len(results) : results[k].is_shadowed }) * 100,
                        Len(results))}] :
        results \in {GridResults(buildings_prim, center, grid_size, grid_spacing,
                                 sun_direction)} } : TRUE

\* ray_out before any call
RayNotCalled ==
    [called |-> FALSE, point |-> <<0, 0, 0>>, sun_direction |-> <<0, 0, 0>>, max_distance |-> 0,
     is_shadowed |-> FALSE, blocking |-> {}, distance |-> {}]

\* hit_result of _intersect_mesh for every child, as the loop of
\* _cast_ray_against_buildings computes them
MeshHits(buildings_prim, point, sun_direction, max_distance) ==
    [k \in 1..Len(buildings_prim.meshes) |->
        LET mesh == buildings_prim.meshes[k]
        IN  IntersectMesh(RayOrigin(point), RayDirection(sun_direction), mesh.points,
                          mesh.face_counts, mesh.face_indices, max_distance)]

\* a call of is_point_in_shadow on a stage, as ray_out records it
RayCallOn(buildings_prim, point, sun_direction, max_distance) ==
    CHOOSE out \in
      { [called |-> TRUE, point |-> point, sun_direction |-> sun_direction,
         max_distance |-> max_distance,
         is_shadowed |-> r.is_shadowed, blocking |-> r.blocking, distance |-> r.distance] :
        r \in {IsPointInShadow(buildings_prim, point, sun_direction, max_distance)} } : TRUE

RayCall(point, sun_direction, max_distance) ==
    RayCallOn(stage_buildings, point, sun_direction, max_distance)

----------------------------------------------------------------------------
(* BuildingGeometryConverter.create_building_mesh: the extruded prism *)

\* f"{parent_path}/Building_{building_id}", as its path components
BuildingPath(building_id) == <<"World", "Buildings", building_id>>

\* bottom ring at y_bottom, then top ring at y_top
MeshPoints(scene_coords, y_bottom, y_top) ==
    LET n == Len(scene_coords)
    IN  [i \in 1..(2 * n) |->
            IF i <= n THEN <<scene_coords[i][1], y_bottom, scene_coords[i][2]>>
                      ELSE <<scene_coords[i - n][1], y_top, scene_coords[i - n][2]>>]

\* bottom face, top face, then one quad per side
MeshFaceCounts(num_verts) == <<num_verts, num_verts>> \o [i \in 1..num_verts |-> 4]

\* the bottom face listed in forward order, like the top face
MeshFaceIndicesForwardBottom(num_verts) ==
    [k \in 1..num_verts |-> k - 1]
    \o [k \in 1..num_verts |-> (k - 1) + num_verts]
    \o [k \in 1..(4 * num_verts) |->
          LET i == (k - 1) \div 4
              next_i == (i + 1) % num_verts
          IN  CASE (k - 1) % 4 = 0 -> i
                [] (k - 1) % 4 = 1 -> next_i
                [] (k - 1) % 4 = 2 -> next_i + num_verts
                [] OTHER -> i + num_verts]

MeshFaceIndices(num_verts) ==
    [k \in 1..num_verts |-> num_verts - k]                       \* range(num_verts - 1, -1, -1)
    \o [k \in 1..num_verts |-> (k - 1) + num_verts]              \* i + num_verts
    \o [k \in 1..(4 * num_verts) |->
          LET i == (k - 1) \div 4
              next_i == (i + 1) % num_verts
          IN  CASE (k - 1) % 4 = 0 -> i
                [] (k - 1) % 4 = 1 -> next_i
                [] (k - 1) % 4 = 2 -> next_i + num_verts
                [] OTHER -> i + num_verts]

PrismMesh(building_id, scene_coords, y_bottom, y_top) ==
    [path |-> BuildingPath(building_id),
     points |-> MeshPoints(scene_coords, y_bottom, y_top),
     face_counts |-> MeshFaceCounts(Len(scene_coords)),
     face_indices |-> MeshFaceIndices(Len(scene_coords))]

NoBuildingsPrim == [exists |-> FALSE, reference |-> {}, meshes |-> <<>>]
NoTerrainPrim == [exists |-> FALSE, points |-> <<>>, face_counts |-> <<>>, face_indices |-> <<>>]

----------------------------------------------------------------------------
(* BuildingGeometryConverter: reference point and projection.              *)
(* Angles are integers in units of 1/UnitsPerDegree degree, so that one    *)
(* unit of latitude is one metre; lengths are in scene units (1/Scale m),  *)
(* building heights and terrain elevations included.                       *)

\* meters_per_lat_degree = 111000.0
MetersPerLatDegree == 111000
UnitsPerDegree == MetersPerLatDegree
Degrees(d) == d * UnitsPerDegree

The(optional) == CHOOSE v \in optional : TRUE

\* meters_per_lat_degree as scene units per angle unit
SceneUnitsPerLatUnit == ExactDiv(MetersPerLatDegree * Scale, UnitsPerDegree)

\* how far from 0 and +-60 degrees a latitude of the model may lie (angle units)
CosBand == 20

\* math.cos(math.radians(lat)) on the latitudes of the model: cos 0 = 1 and
\* cos(+-60 degrees) = 1/2.  Within CosBand units (metres) of these latitudes
\* the cosine differs from them by less than 3 parts in a million, which is
\* under 0.1 mm on the distances the model uses; no other latitude has a value.
Cos(lat) ==
    CASE Abs(lat) <= CosBand -> [num |-> 1, den |-> 1]
      [] Abs(Abs(lat) - Degrees(60)) <= CosBand -> [num |-> 1, den |-> 2]

NewConverter == [reference_lat |-> {}, reference_lon |-> {}]

\* set_reference_point: the converter's fields
SetReferencePoint(conv, latitude, longitude) ==
    [conv EXCEPT !.reference_lat = {latitude}, !.reference_lon = {longitude}]

\* a set_reference_point that leaves the stage alone
StoreReferencePointNowhere(buildings_prim, latitude, longitude) == buildings_prim

\* set_reference_point: the custom data of /World/Buildings, if the prim exists
StoreReferencePoint(buildings_prim, latitude, longitude) ==
    IF buildings_prim.exists
    THEN [buildings_prim EXCEPT !.reference = {<<latitude, longitude>>}]
    ELSE buildings_prim

Raised == [raised |-> TRUE, value |-> {}]
Returned(v) == [raised |-> FALSE, value |-> {v}]

\* the projection with the reference replaced by (0, 0) when it is unset
GpsToSceneCoordsDefaultReference(conv, lat, lon) ==
    LET reference_lat == IF conv.reference_lat = {} THEN 0 ELSE The(conv.reference_lat)
        reference_lon == IF conv.reference_lon = {} THEN 0 ELSE The(conv.reference_lon)
    IN  Returned(<<-ExactDiv((lon - reference_lon) * SceneUnitsPerLatUnit * Cos(lat).num,
                             Cos(lat).den),
                   (lat - reference_lat) * SceneUnitsPerLatUnit>>)

\* gps_to_scene_coords: (x, z), or ValueError
GpsToSceneCoords(conv, lat, lon) ==
    IF conv.reference_lat = {} \/ conv.reference_lon = {}
    THEN Raised
    ELSE LET lat_diff == lat - The(conv.reference_lat)
             lon_diff == lon - The(conv.reference_lon)
             cos_lat == Cos(lat)
             z == lat_diff * SceneUnitsPerLatUnit
             x == -ExactDiv(lon_diff * SceneUnitsPerLatUnit * cos_lat.num, cos_lat.den)
         IN  Returned(<<x, z>>)

DistSq(point, x, z) ==
    (point[1] - x) * (point[1] - x) + (point[3] - z) * (point[3] - z)

\* the loop of get_terrain_elevation_at_point; closest = [found, min_dist_sq,
\* closest_elevation], found FALSE standing for min_dist_sq = inf
RECURSIVE ClosestElevationLoop(_, _, _, _, _)
ClosestElevationLoop(points, x, z, k, closest) ==
    IF k > Len(points) THEN closest.closest_elevation
    ELSE CHOOSE out \in
           { ClosestElevationLoop(points, x, z, k + 1,
                 IF ~c.found \/ dist_sq < c.min_dist_sq
                 THEN [found |-> TRUE, min_dist_sq |-> dist_sq,
                       closest_elevation |-> points[k][2]]
                 ELSE c) :
             dist_sq \in {DistSq(points[k], x, z)}, c \in {closest} } : TRUE

\* get_terrain_elevation_at_point: the elevation of the nearest terrain vertex
GetTerrainElevationAtPoint(terrain_prim, x, z) ==
    IF ~terrain_prim.exists \/ Len(terrain_prim.points) = 0
    THEN 0
    ELSE ClosestElevationLoop(terrain_prim.points, x, z, 1,
                              [found |-> FALSE, min_dist_sq |-> 0, closest_elevation |-> 0])

----------------------------------------------------------------------------
(* BuildingGeometryConverter: meshes from building records.  A record is   *)
(* [id, type, coordinates, height], coordinates a sequence of <<lat, lon>>. *)

\* scene_coords of create_building_mesh
SceneCoords(conv, coordinates) ==
    [i \in 1..Len(coordinates) |->
        The(GpsToSceneCoords(conv, coordinates[i][1], coordinates[i][2]).value)]

\* total_elevation after the first k points
RECURSIVE TotalElevation(_, _, _)
TotalElevation(terrain_prim, scene_coords, k) ==
    IF k = 0 THEN 0
    ELSE TotalElevation(terrain_prim, scene_coords, k - 1)
         + GetTerrainElevationAtPoint(terrain_prim, scene_coords[k][1], scene_coords[k][2])

\* the elevation under the first footprint point only
BaseElevationFirstVertex(terrain_prim, scene_coords) ==
    GetTerrainElevationAtPoint(terrain_prim, scene_coords[1][1], scene_coords[1][2])

\* base_elevation = total_elevation / len(scene_coords)
BaseElevation(terrain_prim, scene_coords) ==
    CHOOSE base_elevation \in
      { ExactDiv(total_elevation, Len(scene_coords)) :
        total_elevation \in {TotalElevation(terrain_prim, scene_coords, Len(scene_coords))} } : TRUE

\* UsdGeom.Mesh.Define and the attribute setters: a prim that exists at the
\* path is given the new geometry, a new prim becomes the last child
DefineMesh(buildings_prim, mesh) ==
    LET meshes == buildings_prim.meshes
    IN  IF \E k \in 1..Len(meshes) : meshes[k].path = mesh.path
        THEN [buildings_prim EXCEPT !.exists = TRUE,
                !.meshes = [k \in 1..Len(meshes) |->
                               IF meshes[k].path = mesh.path THEN mesh ELSE meshes[k]]]
        ELSE [buildings_prim EXCEPT !.exists = TRUE, !.meshes = Append(meshes, mesh)]

\* create_building_mesh: the path returned (None for a skipped record) and
\* the prim /World/Buildings afterwards
CreateBuildingMesh(conv, buildings_prim, terrain_prim, building) ==
    IF Len(building.coordinates) < 3
    THEN [path |-> {}, buildings_prim |-> buildings_prim]
    ELSE IF GpsToSceneCoords(conv, building.coordinates[1][1], building.coordinates[1][2]).raised
    THEN [path |-> {}, buildings_prim |-> buildings_prim]      \* except Exception
    ELSE CHOOSE out \in
           { [path |-> {BuildingPath(building.id)},
              buildings_prim |->
                  DefineMesh(buildings_prim,
                             PrismMesh(building.id, scene_coords, base_elevation,
                                       base_elevation + building.height))] :
             scene_coords \in {SceneCoords(conv, building.coordinates)},
             base_elevation \in {BaseElevation(terrain_prim,
                                               SceneCoords(conv, building.coordinates))} } : TRUE

\* the loop of create_buildings_from_data that stops at the first record
\* for which create_building_mesh returns None
RECURSIVE CreateBuildingsLoopAbort(_, _, _, _, _)
CreateBuildingsLoopAbort(conv, terrain_prim, buildings, k, acc) ==
    IF k > Len(buildings) THEN acc
    ELSE CHOOSE out \in
           { IF r.path = {} THEN a
             ELSE CreateBuildingsLoopAbort(conv, terrain_prim, buildings, k + 1,
                      [buildings_prim |-> r.buildings_prim,
                       created_paths |-> Append(a.created_paths, The(r.path))]) :
             r \in {CreateBuildingMesh(conv, acc.buildings_prim, terrain_prim, buildings[k])},
             a \in {acc} } : TRUE

\* the loop of create_buildings_from_data from record k on;
\* acc = [buildings_prim, created_paths]
RECURSIVE CreateBuildingsLoop(_, _, _, _, _)
CreateBuildingsLoop(conv, terrain_prim, buildings, k, acc) ==
    IF k > Len(buildings) THEN acc
    ELSE CHOOSE out \in
           { CreateBuildingsLoop(conv, terrain_prim, buildings, k + 1,
                 [buildings_prim |-> r.buildings_prim,
                  created_paths |-> IF r.path = {} THEN a.created_paths
                                    ELSE Append(a.created_paths, The(r.path))]) :
             r \in {CreateBuildingMesh(conv, acc.buildings_prim, terrain_prim, buildings[k])},
             a \in {acc} } : TRUE

\* create_buildings_from_data: [converter, buildings_prim, created_paths]
CreateBuildingsFromData(conv, buildings_prim, terrain_prim, buildings, reference_lat, reference_lon) ==
    LET parent == IF buildings_prim.exists THEN buildings_prim
                  ELSE [NoBuildingsPrim EXCEPT !.exists = TRUE]
        conv_set == SetReferencePoint(conv, reference_lat, reference_lon)
    IN  CHOOSE out \in
          { [converter |-> conv_set, buildings_prim |-> acc.buildings_prim,
             created_paths |-> acc.created_paths] :
            acc \in {CreateBuildingsLoop(conv_set, terrain_prim, buildings, 1,
                        [buildings_prim |-> StoreReferencePoint(parent, reference_lat, reference_lon),
                         created_paths |-> <<>>])} } : TRUE

\* clear_buildings: RemovePrim takes the prim, its custom data and its children
ClearBuildingsPrim(buildings_prim) ==
    IF buildings_prim.exists THEN NoBuildingsPrim ELSE buildings_prim

----------------------------------------------------------------------------
(* TerrainMeshGenerator (terrain_generator.py).  elevation_grid is a       *)
(* sequence of rows of elevations; spacings are in angle units per cell.   *)

FracAdd(a, b) == Frac(a.num * b.den + b.num * a.den, a.den * b.den)
FracNeg(a) == [num |-> -a.num, den |-> a.den]

\* int(): truncation towards zero
Trunc(a) == IF a.num >= 0 THEN a.num \div a.den ELSE -((-a.num) \div a.den)

NewTerrainGenerator ==
    [elevation_grid |-> {}, center_lat |-> {}, center_lon |-> {},
     lat_spacing |-> {}, lon_spacing |-> {}, reference_lat |-> {}, reference_lon |-> {},
     meters_per_lon_degree |-> {}, outside_warnings |-> 0,
     warnings_logged |-> 0, notices_logged |-> 0]

\* 111000.0 * math.cos(math.radians(reference_lat)), as scene units per angle unit
MetersPerLonDegree(reference_lat) ==
    Frac(SceneUnitsPerLatUnit * Cos(reference_lat).num, Cos(reference_lat).den)

Rows(elevation_grid) == Len(elevation_grid)
Cols(elevation_grid) == Len(elevation_grid[1])

\* grid_lat_min, grid_lon_min
GridMin(center, spacing, cells) == center - ExactDiv(spacing * (cells - 1), 2)

\* the vertex of grid sample (i, j), 0-based
TerrainVertex(elevation_grid, center_lat, center_lon, lat_spacing, lon_spacing, reference_lat, reference_lon, i, j) ==
    LET lat == GridMin(center_lat, lat_spacing, Rows(elevation_grid)) + i * lat_spacing
        lon == GridMin(center_lon, lon_spacing, Cols(elevation_grid)) + j * lon_spacing
        lat_diff == lat - reference_lat
        lon_diff == lon - reference_lon
        mplon == MetersPerLonDegree(reference_lat)
        x == ExactDiv(lon_diff * mplon.num, mplon.den)
        z == -(lat_diff * SceneUnitsPerLatUnit)
    IN  <<x, elevation_grid[i + 1][j + 1], z>>

\* vertices in row-major order
TerrainVertices(elevation_grid, center_lat, center_lon, lat_spacing, lon_spacing, reference_lat, reference_lon) ==
    LET cols == Cols(elevation_grid)
    IN  [k \in 1..(Rows(elevation_grid) * cols) |->
            TerrainVertex(elevation_grid, center_lat, center_lon, lat_spacing, lon_spacing,
                          reference_lat, reference_lon, (k - 1) \div cols, (k - 1) % cols)]

\* two triangles per grid cell: (v0, v1, v2) and (v0, v2, v3)
TerrainFaceIndices(rows, cols) ==
    [k \in 1..(6 * (rows - 1) * (cols - 1)) |->
        LET cell == (k - 1) \div 6
            i == cell \div (cols - 1)
            j == cell % (cols - 1)
            v0 == i * cols + j
            v1 == i * cols + (j + 1)
            v2 == (i + 1) * cols + (j + 1)
            v3 == (i + 1) * cols + j
        IN  <<v0, v1, v2, v0, v2, v3>>[((k - 1) % 6) + 1]]

TerrainFaceCounts(rows, cols) == [k \in 1..(2 * (rows - 1) * (cols - 1)) |-> 3]

\* create_terrain_mesh: [terrain_generator, terrain_prim]
CreateTerrainMesh(gen, elevation_grid, center_lat, center_lon, lat_spacing, lon_spacing, reference_lat, reference_lon) ==
    [terrain_generator |->
        [gen EXCEPT !.elevation_grid = {elevation_grid},
                    !.center_lat = {center_lat}, !.center_lon = {center_lon},
                    !.lat_spacing = {lat_spacing}, !.lon_spacing = {lon_spacing},
                    !.reference_lat = {reference_lat}, !.reference_lon = {reference_lon},
                    !.meters_per_lon_degree = {MetersPerLonDegree(reference_lat)}],
     terrain_prim |->
        [exists |-> TRUE,
         points |-> TerrainVertices(elevation_grid, center_lat, center_lon, lat_spacing,
                                    lon_spacing, reference_lat, reference_lon),
         face_counts |-> TerrainFaceCounts(Rows(elevation_grid), Cols(elevation_grid)),
         face_indices |-> TerrainFaceIndices(Rows(elevation_grid), Cols(elevation_grid))]]

\* "Convert scene coords back to GPS": <<lat, lon>> as fractions of angle units
SceneCoordsToGps(gen, x, z) ==
    LET mplon == The(gen.meters_per_lon_degree)
        lon_diff == Frac(x * mplon.den, mplon.num)
        lat_diff == Frac(-z, SceneUnitsPerLatUnit)
    IN  <<FracAdd(FracOfInt(The(gen.reference_lat)), lat_diff),
          FracAdd(FracOfInt(The(gen.reference_lon)), lon_diff)>>

\* the grid index int((angle - grid_min) / spacing)
GridIndex(angle, center, spacing, cells) ==
    LET offset == FracAdd(angle, FracOfInt(-GridMin(center, spacing, cells)))
    IN  Trunc(Frac(offset.num, offset.den * spacing))

\* the bound on the "outside grid" warnings
MaxOutsideWarnings == 5

\* the "outside grid" warning is logged whatever the counter says
ShouldWarnAlways(gen) == TRUE

\* "if self._outside_warnings < 5"
ShouldWarn(gen) == gen.outside_warnings < MaxOutsideWarnings

\* the sampler after a query outside the grid: the warning and, when the
\* counter reaches the bound, the "Further ... warnings suppressed" notice;
\* warnings_logged and notices_logged count what was handed to carb.log_warn
WarnOutside(gen) ==
    IF ShouldWarn(gen)
    THEN [gen EXCEPT !.outside_warnings = @ + 1,
                     !.warnings_logged = @ + 1,
                     !.notices_logged =
                         IF gen.outside_warnings + 1 = MaxOutsideWarnings THEN @ + 1 ELSE @]
    ELSE gen

\* get_elevation_at_scene_coords: [elevation, gps, terrain_generator]; gps is
\* the <<lat, lon>> computed on the way, {} when the grid is None
GetElevationAtSceneCoords(gen, x, z) ==
    IF gen.elevation_grid = {}
    THEN [elevation |-> 0, gps |-> {}, terrain_generator |-> gen]
    ELSE CHOOSE out \in
           { IF 0 <= i /\ i < Rows(grid) /\ 0 <= j /\ j < Cols(grid)
             THEN [elevation |-> grid[i + 1][j + 1], gps |-> {gps}, terrain_generator |-> gen]
             ELSE [elevation |-> 0, gps |-> {gps}, terrain_generator |-> WarnOutside(gen)] :
             grid \in {The(gen.elevation_grid)},
             gps \in {SceneCoordsToGps(gen, x, z)},
             i \in {GridIndex(SceneCoordsToGps(gen, x, z)[1], The(gen.center_lat),
                              The(gen.lat_spacing), Len(The(gen.elevation_grid)))},
             j \in {GridIndex(SceneCoordsToGps(gen, x, z)[2], The(gen.center_lon),
                              The(gen.lon_spacing), Len(The(gen.elevation_grid)[1]))} } : TRUE

\* clear_terrain
ClearTerrainPrim(terrain_prim) == IF terrain_prim.exists THEN NoTerrainPrim ELSE terrain_prim

----------------------------------------------------------------------------
(* SunCalculator.get_sun_direction_vector, on the angles whose sine and     *)
(* cosine are integers.  Sun angles are whole degrees.                      *)

SinDeg(a) ==
    CASE a % 360 = 0 -> 0 [] a % 360 = 90 -> 1 [] a % 360 = 180 -> 0 [] a % 360 = 270 -> -1
CosDeg(a) == SinDeg(a + 90)

\* x = cos(el) sin(az), y = -sin(el), z = -cos(el) cos(az)
GetSunDirectionVector(azimuth, elevation) ==
    <<CosDeg(elevation) * SinDeg(azimuth), -SinDeg(elevation),
      -(CosDeg(elevation) * CosDeg(azimuth))>>

\* Sine and cosine of a sun elevation as points [sin, cos, den] of the unit
\* circle with rational coordinates.  On multiples of 90 degrees the point is
\* exact.  cos 30 = sqrt(3)/2 is irrational: 30 degrees is enclosed between
\* the points of the triples (8, 15, 17), 28.07 degrees, and (3, 4, 5),
\* 36.87 degrees, and a result at 30 degrees is one that both give.
UnitCirclePoints(a) ==
    CASE a = 30 -> { [sin |-> 8, cos |-> 15, den |-> 17], [sin |-> 3, cos |-> 4, den |-> 5] }
      [] a % 90 = 0 -> { [sin |-> SinDeg(a), cos |-> CosDeg(a), den |-> 1] }

\* the sun in the north for azimuth 180
GetSunDirectionVectorsNorthPositive(azimuth, elevation) ==
    { <<p.cos * SinDeg(azimuth), -p.sin, p.cos * CosDeg(azimuth)>> :
      p \in UnitCirclePoints(elevation) }

\* get_sun_direction_vector with the elevation on UnitCirclePoints: the
\* vector times den (is_point_in_shadow divides the direction by its length)
GetSunDirectionVectors(azimuth, elevation) ==
    { <<p.cos * SinDeg(azimuth), -p.sin, -(p.cos * CosDeg(azimuth))>> :
      p \in UnitCirclePoints(elevation) }

----------------------------------------------------------------------------
(* ShadowAnalyzerAPI (api_server.py) *)

\* the query_shadow handlers that can be in progress at once
Clients == {1, 2}

EmptyMap == [id \in {} |-> 0]

NoResponse ==
    [elevation |-> 0, request_id |-> {},
     response |-> [kind |-> "none", is_shadowed |-> FALSE, blocking_object |-> {}]]

\* query_log of a step that ran no query
NoQuery ==
    [source |-> "none", load_pc |-> "idle", elevations |-> {}, cast |-> FALSE, label |-> ""]

ServerInit ==
    /\ request_queue = <<>>
    /\ result_map = EmptyMap
    /\ next_request_id = 0
    /\ clients = [c \in Clients |-> [pc |-> "idle"]]
    /\ last_response = NoResponse

UiInit ==
    /\ ui = [load_pc |-> "idle", old_set |-> NoBuildingsPrim, seen |-> {}]
    /\ query_log = NoQuery

\* BuildingLoader.__init__ and TerrainLoader.__init__: self._cache = {}.
\* calls counts the calls made on the loader, out is the last of them.
LoaderInit ==
    /\ building_loader = [cache |-> <<>>, calls |-> 0, out |-> [op |-> "none"]]
    /\ terrain_loader = [cache |-> <<>>, calls |-> 0, out |-> [op |-> "none"]]

\* "if elevation < 0": the horizon itself counts as day
IsNightStrict(elevation) == elevation < 0

\* "if elevation <= 0": the sun is below the horizon (nighttime)
IsNight(elevation) == elevation <= 0

\* load_reference_point_from_scene: [loaded, converter]
LoadReferencePointFromScene(conv, buildings_prim) ==
    IF ~buildings_prim.exists THEN [loaded |-> FALSE, converter |-> conv]
    ELSE IF buildings_prim.reference = {} THEN [loaded |-> FALSE, converter |-> conv]
    ELSE [loaded |-> TRUE,
          converter |-> SetReferencePoint(conv, The(buildings_prim.reference)[1],
                                          The(buildings_prim.reference)[2])]

\* max_distance = 10000.0 metres
MaxDistance == 10000 * Scale

\* the height of the API's query point: 1.5 m
PersonHeight == (15 * Scale) \div 10

\* _perform_shadow_check: [result, converter, ray]; result is the tuple
\* stored in result_map, ray the call of is_point_in_shadow ({} if none)
PerformShadowCheck(conv, buildings_prim, latitude, longitude, azimuth, elevation) ==
    CHOOSE out \in
      { IF ~ref.loaded
        THEN [result |-> [is_shadowed |-> FALSE, blocking_object |-> {},
                          error_msg |-> {"No buildings loaded"}],
              converter |-> ref.converter, ray |-> {}]
        ELSE LET xz == The(GpsToSceneCoords(ref.converter, latitude, longitude).value)
             IN  CHOOSE checked \in
                   { [result |-> [is_shadowed |-> r.is_shadowed, blocking_object |-> r.blocking,
                                  error_msg |-> {}],
                      converter |-> ref.converter,
                      ray |-> {r}] :
                     r \in {RayCallOn(buildings_prim, <<xz[1], PersonHeight, xz[2]>>,
                                      GetSunDirectionVector(azimuth, elevation),
                                      MaxDistance)} } : TRUE :
        ref \in {LoadReferencePointFromScene(conv, buildings_prim)} } : TRUE

\* the loop of process_main_thread_queue from task k on;
\* acc = [result_map, converter, ray]
RECURSIVE ProcessLoop(_, _, _, _)
ProcessLoop(tasks, buildings_prim, k, acc) ==
    IF k > Len(tasks) THEN acc
    ELSE CHOOSE out \in
           { ProcessLoop(tasks, buildings_prim, k + 1,
                 [result_map |-> (tasks[k].request_id :> r.result) @@ a.result_map,
                  converter |-> r.converter,
                  ray |-> IF r.ray = {} THEN a.ray ELSE r.ray]) :
             r \in {PerformShadowCheck(acc.converter, buildings_prim, tasks[k].latitude,
                                       tasks[k].longitude, tasks[k].azimuth, tasks[k].elevation)},
             a \in {acc} } : TRUE

\* the response of query_shadow for a result taken from result_map
ResultResponse(result) ==
    IF result.error_msg # {}
    THEN [kind |-> "error", is_shadowed |-> FALSE, blocking_object |-> {}]
    ELSE [kind |-> "result", is_shadowed |-> result.is_shadowed,
          blocking_object |-> { path[Len(path)] : path \in result.blocking_object }]

NightResponse == [kind |-> "night", is_shadowed |-> TRUE, blocking_object |-> {}]
TimeoutResponse == [kind |-> "timeout", is_shadowed |-> FALSE, blocking_object |-> {}]

\* the dict without a key
Pop(map, key) == [id \in DOMAIN map \ {key} |-> map[id]]

----------------------------------------------------------------------------
(* The UI extension (ui/extension.py): the terrain step of a map load *)

\* one mesh in _adjust_buildings_for_terrain: lifted by the mean terrain
\* elevation under its first half of vertices, if its first vertex is within
\* 0.1 m of y = 0
AdjustMesh(mesh, terrain_prim) ==
    LET points == mesh.points
        num_base_verts == Len(points) \div 2
        base_verts == [i \in 1..num_base_verts |-> <<points[i][1], points[i][3]>>]
    IN  IF Len(points) = 0 THEN mesh
        ELSE IF Abs(points[1][2]) * 10 < Scale
        THEN CHOOSE adjusted \in
               { [mesh EXCEPT !.points =
                     [i \in 1..Len(points) |->
                         <<points[i][1], points[i][2] + base_elevation, points[i][3]>>]] :
                 base_elevation \in
                     {IF num_base_verts > 0 THEN BaseElevation(terrain_prim, base_verts)
                      ELSE 0} } : TRUE
        ELSE mesh

\* _adjust_buildings_for_terrain
AdjustBuildingsForTerrain(buildings_prim, terrain_prim) ==
    [buildings_prim EXCEPT !.meshes =
        [k \in 1..Len(buildings_prim.meshes) |-> AdjustMesh(buildings_prim.meshes[k], terrain_prim)]]

----------------------------------------------------------------------------
(* The ray caster on its own: a stage of prisms, queried with                *)
(* is_point_in_shadow.  Lengths are in scene units (1/Scale m).              *)

\* the largest number of building meshes on the stage
MaxMeshes == 2

SquareA == <<<<0, 0>>, <<20, 0>>, <<20, 20>>, <<0, 20>>>>
SquareB == <<<<0, 30>>, <<20, 30>>, <<20, 50>>, <<0, 50>>>>
TriangleA == <<<<0, 0>>, <<20, 0>>, <<0, 20>>>>

RayMeshes ==
    { PrismMesh(1, SquareA, 0, 30), PrismMesh(2, SquareA, 0, 50),
      PrismMesh(3, SquareB, 0, 50), PrismMesh(4, TriangleA, 0, 30) }

\* sequences of at most MaxMeshes meshes with different paths
RayMeshSeqs ==
    { ms \in UNION { [1..n -> RayMeshes] : n \in 0..MaxMeshes } :
        \A i, j \in 1..Len(ms) : i # j => ms[i].path # ms[j].path }

RayStages ==
    {NoBuildingsPrim} \cup
    { [exists |-> TRUE, reference |-> {}, meshes |-> ms] : ms \in RayMeshSeqs }

RayPoints == { <<5, 0, 10>>, <<15, 0, 10>>, <<10, 0, -20>>, <<10, 0, 70>>, <<5, -1, 10>> }
\* directions FROM the sun, of integer length
RaySunDirections == { <<0, -1, 0>>, <<0, -3, -4>>, <<0, -3, 4>>, <<0, 0, 0>>, <<0, 1, 0>> }
RayMaxDistances == { 25, 26, 29, 100000 }

GeoNotCalled == [op |-> "none"]

InitRay ==
    /\ stage_buildings \in RayStages
    /\ stage_terrain = NoTerrainPrim
    /\ ray_out = RayNotCalled
    /\ converter = NewConverter
    /\ terrain_generator = NewTerrainGenerator
    /\ geo_out = GeoNotCalled
    /\ ServerInit
    /\ UiInit
    /\ LoaderInit

\* one call of is_point_in_shadow on the stage
QueryPoint ==
    /\ ~ray_out.called
    /\ \E point \in RayPoints, sun_direction \in RaySunDirections, max_distance \in RayMaxDistances :
          ray_out' = RayCall(point, sun_direction, max_distance)
    /\ UNCHANGED <<stageVars, geoVars, serverVars, uiVars, loaderVars>>

NextRay == QueryPoint

SpecRay == InitRay /\ [][NextRay]_vars

----------------------------------------------------------------------------
(* The grid analysis of the ray caster: a stage of prisms, analysed once    *)
(* with analyze_grid; geo_out holds the call and what it gave.              *)

\* the largest grid_size
MaxGridSize == 2

GridCenters == { <<10, 0, 10>>, <<10, 0, 40>> }
\* grid_spacing, in scene units
GridSpacings == { 10, 20 }
GridSunDirections == { <<0, -1, 0>>, <<0, -3, -4>> }

\* one call of analyze_grid on the stage
AnalyzeGridCall ==
    /\ geo_out.op = "none"
    /\ \E center \in GridCenters, grid_size \in 0..MaxGridSize,
          grid_spacing \in GridSpacings, sun_direction \in GridSunDirections :
          LET r == AnalyzeGrid(stage_buildings, center, grid_size, grid_spacing, sun_direction)
          IN  geo_out' = [op |-> "analyze_grid", center |-> center, grid_size |-> grid_size,
                          grid_spacing |-> grid_spacing, sun_direction |-> sun_direction,
                          raised |-> r.raised, results |-> r.results,
                          shadow_percentage |-> r.shadow_percentage]
    /\ UNCHANGED <<stageVars, ray_out, converter, terrain_generator, serverVars, uiVars, loaderVars>>

InitGrid == InitRay

NextGrid == AnalyzeGridCall

SpecGrid == InitGrid /\ [][NextGrid]_vars

----------------------------------------------------------------------------
(* The converter and the terrain generator on their own.  geo_out names the *)
(* operation that ran last, with its arguments and what it returned.        *)

\* the reference points <<lat, lon>>: at 60 degrees north and on the equator
GeoRefs == { <<Degrees(60), 0>>, <<0, 0>> }

\* the points that are projected
GeoLats == { 0, 10, Degrees(60), Degrees(60) + 10 }
GeoLons == { 0, 20, -20 }

\* elevation grids, 3 x 3, in scene units
SlopeGrid == <<<<0, 60, 120>>, <<180, 240, 300>>, <<360, 420, 480>>>>
FlatGrid == <<<<0, 0, 0>>, <<0, 0, 0>>, <<0, 0, 0>>>>
TerrainGrids == { SlopeGrid, FlatGrid }
\* <<lat_spacing, lon_spacing>>: one grid cell in angle units
GridSpacing == <<10, 20>>

\* scene positions <<x, z>> at which the generator is sampled; the last one
\* lies half a metre south of the grid's first row
SamplePoints ==
    { <<0, 0>>, <<-100, 100>>, <<55, -30>>, <<-5, 5>>, <<1000, 0>>, <<0, -150>>, <<0, 105>> }

\* set_reference_point on the converter
SetReferencePointCall ==
    \E ref \in GeoRefs :
        /\ converter' = SetReferencePoint(converter, ref[1], ref[2])
        /\ stage_buildings' = StoreReferencePoint(stage_buildings, ref[1], ref[2])
        /\ geo_out' = [op |-> "set_reference_point", latitude |-> ref[1], longitude |-> ref[2]]
        /\ UNCHANGED <<stage_terrain, terrain_generator, ray_out, serverVars, uiVars, loaderVars>>

\* gps_to_scene_coords on the converter
GpsToSceneCoordsCall ==
    \E lat \in GeoLats, lon \in GeoLons :
        /\ geo_out' = [op |-> "gps_to_scene_coords", lat |-> lat, lon |-> lon,
                       result |-> GpsToSceneCoords(converter, lat, lon)]
        /\ UNCHANGED <<stageVars, converter, terrain_generator, ray_out, serverVars, uiVars, loaderVars>>

\* create_terrain_mesh with the grid centred on the reference point
CreateTerrainMeshCall ==
    \E elevation_grid \in TerrainGrids, ref \in GeoRefs :
        LET r == CreateTerrainMesh(terrain_generator, elevation_grid, ref[1], ref[2],
                                   GridSpacing[1], GridSpacing[2], ref[1], ref[2])
        IN  /\ terrain_generator' = r.terrain_generator
            /\ stage_terrain' = r.terrain_prim
            /\ geo_out' = [op |-> "create_terrain_mesh", reference_lat |-> ref[1],
                           reference_lon |-> ref[2]]
            /\ UNCHANGED <<stage_buildings, converter, ray_out, serverVars, uiVars, loaderVars>>

\* clear_terrain
ClearTerrain ==
    /\ stage_terrain' = ClearTerrainPrim(stage_terrain)
    /\ geo_out' = [op |-> "clear_terrain"]
    /\ UNCHANGED <<stage_buildings, converter, terrain_generator, ray_out, serverVars, uiVars, loaderVars>>

\* get_elevation_at_scene_coords on the generator
GetElevationAtSceneCoordsCall ==
    \E p \in SamplePoints :
        LET r == GetElevationAtSceneCoords(terrain_generator, p[1], p[2])
        IN  /\ terrain_generator' = r.terrain_generator
            /\ geo_out' = [op |-> "get_elevation_at_scene_coords", x |-> p[1], z |-> p[2],
                           elevation |-> r.elevation, gps |-> r.gps,
                           warned |-> r.terrain_generator.warnings_logged
                                         # terrain_generator.warnings_logged]
            /\ UNCHANGED <<stageVars, converter, ray_out, serverVars, uiVars, loaderVars>>

\* a point projected by the converter and handed to the generator:
\* gps_to_scene_coords, then get_elevation_at_scene_coords at the (x, z) returned
RoundTrip ==
    \E lat \in GeoLats, lon \in GeoLons :
        /\ ~GpsToSceneCoords(converter, lat, lon).raised
        /\ LET xz == The(GpsToSceneCoords(converter, lat, lon).value)
               r == GetElevationAtSceneCoords(terrain_generator, xz[1], xz[2])
           IN  /\ terrain_generator' = r.terrain_generator
               /\ geo_out' = [op |-> "round_trip", lat |-> lat, lon |-> lon,
                              x |-> xz[1], z |-> xz[2],
                              elevation |-> r.elevation, gps |-> r.gps,
                              warned |-> r.terrain_generator.warnings_logged
                                            # terrain_generator.warnings_logged]
        /\ UNCHANGED <<stageVars, converter, ray_out, serverVars, uiVars, loaderVars>>

InitProjection ==
    /\ stage_buildings = NoBuildingsPrim
    /\ stage_terrain = NoTerrainPrim
    /\ ray_out = RayNotCalled
    /\ converter = NewConverter
    /\ terrain_generator = NewTerrainGenerator
    /\ geo_out = GeoNotCalled
    /\ ServerInit
    /\ UiInit
    /\ LoaderInit

NextProjection ==
    \/ SetReferencePointCall
    \/ GpsToSceneCoordsCall
    \/ CreateTerrainMeshCall
    \/ ClearTerrain
    \/ GetElevationAtSceneCoordsCall
    \/ RoundTrip

SpecProjection == InitProjection /\ [][NextProjection]_vars

----------------------------------------------------------------------------
(* The ray/triangle test on its own: one call of _ray_triangle_intersect    *)
(* on a triangle, an origin and a direction; geo_out holds the call.        *)

\* triangles <<v0, v1, v2>>: horizontal, vertical, and three points in line
TestTriangles ==
    { <<<<0, 0, 0>>, <<10, 0, 0>>, <<0, 0, 10>>>>,
      <<<<0, 0, 5>>, <<10, 0, 5>>, <<0, 10, 5>>>>,
      <<<<0, 0, 0>>, <<5, 0, 0>>, <<10, 0, 0>>>> }

TestOrigins ==
    { <<2, 10, 2>>, <<8, 10, 8>>, <<-2, 10, 2>>, <<2, 10, -2>>, <<2, 0, 2>>, <<2, -10, 2>>,
      <<2, 2, 0>>, <<12, 10, 2>> }

\* ray directions v / len
TestDirections ==
    { [v |-> <<0, -1, 0>>, len |-> 1], [v |-> <<0, 1, 0>>, len |-> 1],
      [v |-> <<0, 0, 1>>, len |-> 1], [v |-> <<1, 0, 0>>, len |-> 1],
      [v |-> <<0, -3, 4>>, len |-> 5], [v |-> <<0, -3, -4>>, len |-> 5],
      [v |-> <<0, 0, 0>>, len |-> 1] }

\* one call of _ray_triangle_intersect
RayTriangleIntersectCall ==
    /\ geo_out.op = "none"
    /\ \E tri \in TestTriangles, ray_origin \in TestOrigins, ray_direction \in TestDirections :
          geo_out' = [op |-> "ray_triangle_intersect", ray_origin |-> ray_origin,
                      ray_direction |-> ray_direction,
                      v0 |-> tri[1], v1 |-> tri[2], v2 |-> tri[3],
                      result |-> RayTriangleIntersect(ray_origin, ray_direction,
                                                      tri[1], tri[2], tri[3])]
    /\ UNCHANGED <<stageVars, ray_out, converter, terrain_generator, serverVars, uiVars, loaderVars>>

InitTriangle == InitProjection

NextTriangle == RayTriangleIntersectCall

SpecTriangle == InitTriangle /\ [][NextTriangle]_vars

----------------------------------------------------------------------------
(* Batches of building records turned into meshes, with and without terrain *)

\* the longest list of records handed to create_buildings_from_data
MaxBuildings == 2

\* the reference point of the batches
BuildingsRef == <<Degrees(60), 0>>

\* footprints as offsets <<lat, lon>> from the reference point
SquareOffsets == <<<<0, 0>>, <<0, 20>>, <<10, 20>>, <<10, 0>>>>
TriangleOffsets == <<<<0, 0>>, <<0, -20>>, <<-10, 0>>>>
SegmentOffsets == <<<<0, 0>>, <<0, 20>>>>

At(ref, offsets) == [i \in 1..Len(offsets) |-> <<ref[1] + offsets[i][1], ref[2] + offsets[i][2]>>]

\* the records: a square, a triangle and a footprint of 2 points
SquareBuilding ==
    [id |-> 1, type |-> "residential", coordinates |-> At(BuildingsRef, SquareOffsets),
     height |-> 300]
TriangleBuilding ==
    [id |-> 2, type |-> "office", coordinates |-> At(BuildingsRef, TriangleOffsets),
     height |-> 100]
SegmentBuilding ==
    [id |-> 3, type |-> "yes", coordinates |-> At(BuildingsRef, SegmentOffsets),
     height |-> 100]

BuildingRecords == { SquareBuilding, TriangleBuilding, SegmentBuilding }

\* lists of records; a record may occur twice
BuildingLists == UNION { [1..n -> BuildingRecords] : n \in 0..MaxBuildings }

\* create_buildings_from_data on the converter
CreateBuildingsFromDataCall ==
    \E buildings \in BuildingLists :
        LET r == CreateBuildingsFromData(converter, stage_buildings, stage_terrain, buildings,
                                         BuildingsRef[1], BuildingsRef[2])
        IN  /\ converter' = r.converter
            /\ stage_buildings' = r.buildings_prim
            /\ geo_out' = [op |-> "create_buildings_from_data", buildings |-> buildings,
                           created_paths |-> r.created_paths]
            /\ UNCHANGED <<stage_terrain, terrain_generator, ray_out, serverVars, uiVars, loaderVars>>

\* clear_buildings on the converter
ClearBuildings ==
    /\ stage_buildings' = ClearBuildingsPrim(stage_buildings)
    /\ geo_out' = [op |-> "clear_buildings"]
    /\ UNCHANGED <<stage_terrain, converter, terrain_generator, ray_out, serverVars, uiVars, loaderVars>>

\* create_terrain_mesh around the reference point of the batches
CreateTerrainAtBuildings ==
    \E elevation_grid \in TerrainGrids :
        LET r == CreateTerrainMesh(terrain_generator, elevation_grid,
                                   BuildingsRef[1], BuildingsRef[2],
                                   GridSpacing[1], GridSpacing[2],
                                   BuildingsRef[1], BuildingsRef[2])
        IN  /\ terrain_generator' = r.terrain_generator
            /\ stage_terrain' = r.terrain_prim
            /\ geo_out' = [op |-> "create_terrain_mesh", reference_lat |-> BuildingsRef[1],
                           reference_lon |-> BuildingsRef[2]]
            /\ UNCHANGED <<stage_buildings, converter, ray_out, serverVars, uiVars, loaderVars>>

InitBuildings == InitProjection

NextBuildings ==
    \/ CreateBuildingsFromDataCall
    \/ ClearBuildings
    \/ CreateTerrainAtBuildings
    \/ ClearTerrain

SpecBuildings == InitBuildings /\ [][NextBuildings]_vars

----------------------------------------------------------------------------
(* One building on flat ground, the sun given by azimuth and elevation, and *)
(* a query point given by latitude and longitude: the converter builds the  *)
(* mesh, projects the point, and the analyzer casts the ray.                *)

\* the reference point of the scene
SceneRef == <<0, 0>>

\* a square footprint of side 10 m centred on the reference point
CenteredSquareOffsets == <<<<-5, -5>>, <<-5, 5>>, <<5, 5>>, <<5, -5>>>>

\* the same footprint as a tower of 20 m and as a kiosk of 2 m
TowerBuilding ==
    [id |-> 7, type |-> "residential", coordinates |-> At(SceneRef, CenteredSquareOffsets),
     height |-> 20 * Scale]
KioskBuilding ==
    [id |-> 8, type |-> "retail", coordinates |-> At(SceneRef, CenteredSquareOffsets),
     height |-> 2 * Scale]
SceneBuildings == { TowerBuilding, KioskBuilding }

\* query points <<lat, lon>>: 5 m north, south, east and west of the
\* footprint, 10 m north of it, and 5 m north-east of its corner
ScenePoints == { <<10, 0>>, <<-10, 0>>, <<0, 10>>, <<0, -10>>, <<15, 0>>, <<10, 10>> }

SceneAzimuths == { 0, 90, 180, 270 }
SceneElevations == { 30, 90 }

\* clear_buildings, then create_buildings_from_data with one record
LoadScene ==
    \E building \in SceneBuildings :
        LET r == CreateBuildingsFromData(converter, ClearBuildingsPrim(stage_buildings),
                                         stage_terrain, <<building>>, SceneRef[1], SceneRef[2])
        IN  /\ converter' = r.converter
            /\ stage_buildings' = r.buildings_prim
            /\ geo_out' = [op |-> "create_buildings_from_data", buildings |-> <<building>>,
                           created_paths |-> r.created_paths]
            /\ ray_out' = RayNotCalled
            /\ UNCHANGED <<stage_terrain, terrain_generator, serverVars, uiVars, loaderVars>>

\* gps_to_scene_coords, get_sun_direction_vector and is_point_in_shadow for a
\* point on the ground (y = 0)
QueryScene ==
    /\ stage_buildings.exists
    /\ \E gps \in ScenePoints, azimuth \in SceneAzimuths, elevation \in SceneElevations :
         \E sun_direction \in GetSunDirectionVectors(azimuth, elevation) :
           LET xz == The(GpsToSceneCoords(converter, gps[1], gps[2]).value)
           IN  /\ ray_out' = RayCallOn(stage_buildings, <<xz[1], 0, xz[2]>>, sun_direction,
                                       DefaultMaxDistance)
               /\ geo_out' = [op |-> "query_scene", gps |-> gps, azimuth |-> azimuth,
                              elevation |-> elevation]
    /\ UNCHANGED <<stageVars, converter, terrain_generator, serverVars, uiVars, loaderVars>>

InitScene == InitProjection

NextScene == LoadScene \/ QueryScene

SpecScene == InitScene /\ [][NextScene]_vars

----------------------------------------------------------------------------
(* SunCalculator.calculate_sun_position, from the declination and the hour  *)
(* angle on: the conversion to horizontal coordinates.  Floating-point      *)
(* values are fixed-point numbers in units of 1/One, and every product is   *)
(* rounded to the nearest unit, as every floating-point operation rounds    *)
(* its result.  Angles are whole degrees, multiples of 10.                  *)

\* the fixed-point unit: three decimal places
One == 1000

\* rounding to the nearest integer of n/d (d > 0), halves away from zero
RoundDiv(n, d) == IF n >= 0 THEN (2 * n + d) \div (2 * d) ELSE -((2 * (-n) + d) \div (2 * d))

\* a * b rounded to the grid
Mul(a, b) == RoundDiv(a * b, One)

\* math.sin to three decimal places on 0, 10, ..., 90 degrees
SinTable == <<0, 174, 342, 500, 643, 766, 866, 940, 985, 1000>>

\* math.sin(math.radians(a)) for a multiple of 10 degrees
Sin(a) ==
    LET r == a % 360
    IN  CASE r <= 90 -> SinTable[r \div 10 + 1]
          [] r > 90 /\ r <= 180 -> SinTable[(180 - r) \div 10 + 1]
          [] r > 180 /\ r <= 270 -> -SinTable[(r - 180) \div 10 + 1]
          [] r > 270 -> -SinTable[(360 - r) \div 10 + 1]

\* math.cos(math.radians(a)) for a multiple of 10 degrees
CosOf(a) == Sin(a + 90)

\* sin_el = sin(lat) sin(dec) + cos(lat) cos(dec) cos(ha)
SinEl(latitude, dec, ha) ==
    Mul(Sin(latitude), Sin(dec)) + Mul(Mul(CosOf(latitude), CosOf(dec)), CosOf(ha))

\* math.asin raises ValueError (math domain error) outside [-1, 1]
AsinRaises(x) == Abs(x) > One

\* max(-1.0, min(1.0, cos_az))
Clamp(x) == IF x > One THEN One ELSE IF x < -One THEN -One ELSE x

\* the largest r of lo..hi with r * r <= n
RECURSIVE SqrtFloor(_, _, _)
SqrtFloor(n, lo, hi) ==
    IF lo = hi THEN lo
    ELSE LET mid == (lo + hi + 1) \div 2
         IN  IF mid * mid <= n THEN SqrtFloor(n, mid, hi) ELSE SqrtFloor(n, lo, mid - 1)

\* math.cos(math.asin(sin_el)) = sqrt(1 - sin_el^2), rounded to the grid
CosAsin(sin_el) ==
    LET n == One * One - sin_el * sin_el
        f == SqrtFloor(n, 0, One)
    IN  IF n - f * f > (f + 1) * (f + 1) - n THEN f + 1 ELSE f

\* The clamped cos_az.  A denominator that is 0 on the grid stands for a
\* floating-point value that is tiny and not 0 (math.cos returns 0 for no
\* float: math.cos(math.radians(90.0)) is 6.1e-17), so the quotient is
\* clamped to -1 or 1 by the sign of the numerator, and is any value of
\* [-1, 1] when the numerator is 0 on the grid as well.
CosAz(latitude, dec, sin_el) ==
    LET numerator == Sin(dec) - Mul(Sin(latitude), sin_el)
        denominator == Mul(CosOf(latitude), CosAsin(sin_el))
    IN  IF denominator # 0 THEN {Clamp(RoundDiv(numerator * One, denominator))}
        ELSE IF numerator > 0 THEN {One}
        ELSE IF numerator < 0 THEN {-One}
        ELSE {-One, 0, One}

\* the conversion with the clamp on sin_el that the function does not have
HorizontalCoordinatesClamped(latitude, dec, ha) ==
    { [raised |-> FALSE, sin_el |-> {Clamp(SinEl(latitude, dec, ha))}, cos_az |-> {cos_az},
       mirrored |-> Sin(ha) > 0] :
      cos_az \in CosAz(latitude, dec, Clamp(SinEl(latitude, dec, ha))) }

\* lines 84-109 of calculate_sun_position: the outcomes for a latitude, a
\* declination and an hour angle.  elevation = asin(sin_el) raises when
\* sin_el is outside [-1, 1]; azimuth = acos(cos_az) of the clamped cos_az,
\* mirrored to 360 - azimuth when sin(ha) > 0.
HorizontalCoordinates(latitude, dec, ha) ==
    IF AsinRaises(SinEl(latitude, dec, ha))
    THEN { [raised |-> TRUE, sin_el |-> {SinEl(latitude, dec, ha)}, cos_az |-> {},
            mirrored |-> FALSE] }
    ELSE { [raised |-> FALSE, sin_el |-> {SinEl(latitude, dec, ha)}, cos_az |-> {cos_az},
            mirrored |-> Sin(ha) > 0] :
           cos_az \in CosAz(latitude, dec, SinEl(latitude, dec, ha)) }

\* latitudes of [-90, 90], the poles included
SunLatitudes == { 10 * k : k \in -9..9 }

\* dec = asin(sin(epsilon) sin(lambda_sun)): declinations of the sun, which
\* stay within the obliquity of 23.4 degrees
SunDeclinations == { -20, -10, 0, 10, 20 }

\* ha = lst - ra: every hour angle occurs, for a longitude and an instant
SunHourAngles == { 30 * k : k \in 0..11 }

\* calculate_sun_position for a latitude, and a longitude and an instant
\* that give the declination dec and the hour angle ha
CalculateSunPositionCall ==
    \E latitude \in SunLatitudes, dec \in SunDeclinations, ha \in SunHourAngles :
        \E r \in HorizontalCoordinates(latitude, dec, ha) :
            /\ geo_out.op = "none"
            /\ geo_out' = [op |-> "calculate_sun_position", latitude |-> latitude,
                           dec |-> dec, ha |-> ha, raised |-> r.raised,
                           sin_el |-> r.sin_el, cos_az |-> r.cos_az, mirrored |-> r.mirrored]
            /\ UNCHANGED <<stageVars, ray_out, converter, terrain_generator, serverVars, uiVars, loaderVars>>

InitSun == InitProjection

NextSun == CalculateSunPositionCall

SpecSun == InitSun /\ [][NextSun]_vars

----------------------------------------------------------------------------
(* BuildingLoader: the height of a building way.  A tag value is a string,  *)
(* modelled as the sequence of its characters; a height is in scene units.  *)

Digits == <<"0", "1", "2", "3", "4", "5", "6", "7", "8", "9">>
IsDigit(c) == \E d \in 1..10 : Digits[d] = c
DigitValue(c) == (CHOOSE d \in 1..10 : Digits[d] = c) - 1

\* str.replace(c, "")
Remove(s, c) == SelectSeq(s, LAMBDA x : x # c)

\* str.strip() for blanks
RECURSIVE StripLeft(_)
StripLeft(s) == IF s # <<>> /\ Head(s) = " " THEN StripLeft(Tail(s)) ELSE s
RECURSIVE StripRight(_)
StripRight(s) ==
    IF s # <<>> /\ s[Len(s)] = " " THEN StripRight(SubSeq(s, 1, Len(s) - 1)) ELSE s
Strip(s) == StripLeft(StripRight(s))

\* the number a sequence of digits writes
RECURSIVE DigitsValue(_)
DigitsValue(s) ==
    IF s = <<>> THEN 0 ELSE 10 * DigitsValue(SubSeq(s, 1, Len(s) - 1)) + DigitValue(s[Len(s)])

\* float(s) for the decimal notation: blanks around it, a sign, digits with
\* at most one point and at least one digit.  The value in scene units, or
\* the empty set for ValueError.  Fractions have one digit at most.
ParseFloat(s) ==
    LET t == Strip(s)
        signed == t # <<>> /\ Head(t) \in {"-", "+"}
        body == IF signed THEN Tail(t) ELSE t
        points == { k \in 1..Len(body) : body[k] = "." }
        point == IF points = {} THEN Len(body) + 1 ELSE CHOOSE k \in points : TRUE
        whole == SubSeq(body, 1, point - 1)
        fraction == SubSeq(body, point + 1, Len(body))
        tenths == CASE Len(fraction) = 0 -> 0 [] Len(fraction) = 1 -> DigitValue(fraction[1])
        magnitude == DigitsValue(whole) * Scale + ExactDiv(tenths * Scale, 10)
    IN  IF /\ Cardinality(points) <= 1
           /\ \A k \in 1..Len(body) : IsDigit(body[k]) \/ body[k] = "."
           /\ Len(whole) + Len(fraction) >= 1
        THEN {IF signed /\ Head(t) = "-" THEN -magnitude ELSE magnitude}
        ELSE {}

\* float(tags[key].replace("m", "").replace("M", "").strip())
ParseHeightTag(text) == ParseFloat(Strip(Remove(Remove(text, "m"), "M")))

\* _extract_height: the height tag, then building:height; None is the empty set
ExtractHeight(tags) ==
    IF tags.height # {} /\ ParseHeightTag(The(tags.height)) # {}
    THEN ParseHeightTag(The(tags.height))
    ELSE IF tags.building_height # {} /\ ParseHeightTag(The(tags.building_height)) # {}
    THEN ParseHeightTag(The(tags.building_height))
    ELSE {}

\* height = 10.0
DefaultHeight == 10 * Scale

\* the estimate from the levels with the explicit tags ignored
EstimateHeightLevelsFirst(height, levels) ==
    IF levels # {} /\ The(levels) # <<>>
    THEN IF ParseFloat(The(levels)) # {} THEN The(ParseFloat(The(levels))) * 3
         ELSE DefaultHeight
    ELSE IF height # {} THEN The(height) ELSE DefaultHeight

\* the height of a building way, given _extract_height's result and the
\* building:levels tag: float(levels) * 3.0 or 10.0 when the result is None
EstimateHeight(height, levels) ==
    IF height = {} /\ levels # {} /\ The(levels) # <<>>
    THEN IF ParseFloat(The(levels)) # {} THEN The(ParseFloat(The(levels))) * 3
         ELSE DefaultHeight
    ELSE IF height = {} THEN DefaultHeight
    ELSE The(height)

\* the building record of a way
BuildingRecord(elem, coordinates) ==
    [id |-> elem.id, type |-> The(elem.tags.building), coordinates |-> coordinates,
     height |-> EstimateHeight(ExtractHeight(elem.tags), elem.tags.levels),
     levels |-> elem.tags.levels, tags |-> elem.tags]

\* _parse_osm_data on a response with one way: the buildings list
ParseOsmData(elem, coordinates) ==
    IF elem.tags.building # {}
    THEN IF Len(coordinates) < 3 THEN <<>> ELSE <<BuildingRecord(elem, coordinates)>>
    ELSE <<>>

\* load_scene_data on a response with one way that is no highway:
\* the buildings list
LoadSceneData(elem, coordinates) ==
    IF Len(coordinates) < 2 THEN <<>>
    ELSE IF elem.tags.building # {} THEN <<BuildingRecord(elem, coordinates)>>
    ELSE <<>>

\* values of the tags height and building:height
HeightTexts ==
    { <<"2", "0">>, <<"2", "0", "m">>, <<"1", "2", ".", "5", " ", "m">>, <<"0">>,
      <<"-", "5">>, <<"t", "a", "l", "l">>, <<>> }
BuildingHeightTexts == { <<"1", "5", " ", "M">>, <<"0", "m">>, <<"h", "i", "g", "h">> }

\* values of the tag building:levels
LevelTexts == { <<"3">>, <<" ", "4", " ">>, <<"0">>, <<"-", "2">>, <<"3", "m">>, <<>> }

Optional(S) == {{}} \cup { {v} : v \in S }

\* the tag maps of the ways
TagMaps ==
    [building : Optional({"yes", "house"}), height : Optional(HeightTexts),
     building_height : Optional(BuildingHeightTexts), levels : Optional(LevelTexts)]

\* the ways of the responses
Ways == [id : {41}, tags : TagMaps]

\* the coordinates of the way's nodes found in the response: 1 to 4 of them
WayCoordinates == { SubSeq(At(SceneRef, CenteredSquareOffsets), 1, n) : n \in 1..4 }

ParseOsmDataCall ==
    \E elem \in Ways, coordinates \in WayCoordinates :
        /\ geo_out.op = "none"
        /\ geo_out' = [op |-> "_parse_osm_data", tags |-> elem.tags,
                       buildings |-> ParseOsmData(elem, coordinates)]
        /\ UNCHANGED <<stageVars, ray_out, converter, terrain_generator, serverVars, uiVars, loaderVars>>

LoadSceneDataCall ==
    \E elem \in Ways, coordinates \in WayCoordinates :
        /\ geo_out.op = "none"
        /\ geo_out' = [op |-> "load_scene_data", tags |-> elem.tags,
                       buildings |-> LoadSceneData(elem, coordinates)]
        /\ UNCHANGED <<stageVars, ray_out, converter, terrain_generator, serverVars, uiVars, loaderVars>>

InitLoader == InitProjection

NextLoader == ParseOsmDataCall \/ LoadSceneDataCall

SpecLoader == InitLoader /\ [][NextLoader]_vars

----------------------------------------------------------------------------
(* SunCalculator._get_julian_date.  A Julian date is kept as the day number *)
(* and the seconds added to it: jd = days + seconds / 86400.                *)

\* jdn of the proleptic Julian calendar: no century correction
JulianDayNumberNoCenturies(year, month, day) ==
    LET a == (14 - month) \div 12
        y == year + 4800 - a
        m == month + 12 * a - 3
    IN  day + (153 * m + 2) \div 5 + 365 * y + y \div 4 - 32083

\* jdn = day + (153 m + 2) // 5 + 365 y + y // 4 - y // 100 + y // 400 - 32045
JulianDayNumber(year, month, day) ==
    LET a == (14 - month) \div 12
        y == year + 4800 - a
        m == month + 12 * a - 3
    IN  day + (153 * m + 2) \div 5 + 365 * y + y \div 4 - y \div 100 + y \div 400 - 32045

\* jd = jdn + (hour - 12) / 24.0 + minute / 1440.0 + second / 86400.0
GetJulianDate(dt) ==
    [days |-> JulianDayNumber(dt.year, dt.month, dt.day),
     seconds |-> (dt.hour - 12) * 3600 + dt.minute * 60 + dt.second]

\* t = (jd - 2451545.0) / 36525.0 is 0
CenturiesIsZero(jd) == jd.seconds % 86400 = 0 /\ jd.days - 2451545 + jd.seconds \div 86400 = 0

\* the dates a datetime can hold
IsLeapYear(year) == year % 4 = 0 /\ (year % 100 # 0 \/ year % 400 = 0)
DaysInMonth(year, month) ==
    CASE month \in {1, 3, 5, 7, 8, 10, 12} -> 31
      [] month \in {4, 6, 9, 11} -> 30
      [] month = 2 -> IF IsLeapYear(year) THEN 29 ELSE 28

\* the calendar day after a date
NextDay(dt) ==
    IF dt.day < DaysInMonth(dt.year, dt.month) THEN [dt EXCEPT !.day = dt.day + 1]
    ELSE IF dt.month < 12 THEN [dt EXCEPT !.day = 1, !.month = dt.month + 1]
    ELSE [dt EXCEPT !.day = 1, !.month = 1, !.year = dt.year + 1]

\* years with and without a leap day, two of them century years
JulianYears == { 1900, 1999, 2000, 2001, 2024, 2100 }

\* times of day <<hour, minute, second>>
JulianTimes == { <<0, 0, 0>>, <<6, 30, 15>>, <<12, 0, 0>>, <<23, 59, 59>> }

JulianDates ==
    { [year |-> y, month |-> m, day |-> d, hour |-> t[1], minute |-> t[2], second |-> t[3]] :
      y \in JulianYears, m \in 1..12, d \in 1..31, t \in JulianTimes }

GetJulianDateCall ==
    \E dt \in JulianDates :
        /\ dt.day <= DaysInMonth(dt.year, dt.month)
        /\ geo_out.op = "none"
        /\ geo_out' = [op |-> "_get_julian_date", dt |-> dt, jd |-> GetJulianDate(dt)]
        /\ UNCHANGED <<stageVars, ray_out, converter, terrain_generator, serverVars, uiVars, loaderVars>>

InitJulian == InitProjection

NextJulian == GetJulianDateCall

SpecJulian == InitJulian /\ [][NextJulian]_vars

----------------------------------------------------------------------------
(* SunCalculator.get_sun_direction_vector on the angles whose sine and      *)
(* cosine are both rational.  An angle is the point [sin, cos, den] of the  *)
(* unit circle it names: sin/den and cos/den are its sine and cosine.       *)

\* Pythagorean triples <<a, b, c>>, the axes included
Triples == { <<0, 1, 1>>, <<3, 4, 5>>, <<5, 12, 13>>, <<8, 15, 17>> }

\* the angles of the first quadrant
QuadrantAngles ==
    { [sin |-> t[1], cos |-> t[2], den |-> t[3]] : t \in Triples }
      \cup { [sin |-> t[2], cos |-> t[1], den |-> t[3]] : t \in Triples }

\* azimuths: all four quadrants
SunAzimuths ==
    { [sin |-> s * p.sin, cos |-> c * p.cos, den |-> p.den] :
      p \in QuadrantAngles, s \in {-1, 1}, c \in {-1, 1} }

\* elevations: -90 to 90 degrees, where the cosine is not negative
SunElevations == { [sin |-> s * p.sin, cos |-> p.cos, den |-> p.den] : p \in QuadrantAngles, s \in {-1, 1} }

\* the vector without the factor cos(el) on the horizontal components
SunDirectionVectorFlat(azimuth, elevation) ==
    [v |-> <<elevation.den * azimuth.sin, -(elevation.sin * azimuth.den),
             -(elevation.den * azimuth.cos)>>,
     den |-> elevation.den * azimuth.den]

\* x = cos(el) sin(az), y = -sin(el), z = -cos(el) cos(az): the vector is v / den
SunDirectionVector(azimuth, elevation) ==
    [v |-> <<elevation.cos * azimuth.sin, -(elevation.sin * azimuth.den),
             -(elevation.cos * azimuth.cos)>>,
     den |-> elevation.den * azimuth.den]

GetSunDirectionVectorCall ==
    \E azimuth \in SunAzimuths, elevation \in SunElevations :
        /\ geo_out.op = "none"
        /\ geo_out' = [op |-> "get_sun_direction_vector", azimuth |-> azimuth,
                       elevation |-> elevation,
                       direction |-> SunDirectionVector(azimuth, elevation)]
        /\ UNCHANGED <<stageVars, ray_out, converter, terrain_generator, serverVars, uiVars, loaderVars>>

InitSunVector == InitProjection

NextSunVector == GetSunDirectionVectorCall

SpecSunVector == InitSunVector /\ [][NextSunVector]_vars

----------------------------------------------------------------------------
(* CityCacheManager.generate_cache_key (city_cache.py).  Latitudes and      *)
(* longitudes are integers in units of 1e-7 degree, radii in units of       *)
(* 1e-4 km: one decimal more than the key prints.                           *)

\* the units of one degree
KeyUnitsPerDegree == 10000000

\* f"{value:.6f}" and f"{value:.3f}": the text is its sign and the value
\* rounded to the last printed decimal (a value halfway between two texts
\* has no text in the model)
FormatFixed(value) ==
    CASE Abs(value) % 10 < 5 -> [negative |-> value < 0, digits |-> Abs(value) \div 10]
      [] Abs(value) % 10 > 5 -> [negative |-> value < 0, digits |-> Abs(value) \div 10 + 1]

\* hashlib.md5(bounds_str.encode()).hexdigest()[:12]: equal for equal texts,
\* and taken to be different for different texts
Md5Prefix(bounds_str) == <<"md5", bounds_str>>

\* f"city_{abs(int(latitude))}N_{abs(int(longitude))}W"
CityName(latitude, longitude) ==
    <<"city", Abs(latitude) \div KeyUnitsPerDegree, "N",
      Abs(longitude) \div KeyUnitsPerDegree, "W">>

\* generate_cache_key: (city_name, bounds_hash)
GenerateCacheKey(latitude, longitude, radius) ==
    [city_name |-> CityName(latitude, longitude),
     bounds_hash |-> Md5Prefix(<<FormatFixed(latitude), FormatFixed(longitude),
                                 FormatFixed(radius)>>)]

\* 40.7128 and 40.7128001 (New York), 51.5074 (London), 0 and -0.0000001
KeyLatitudes == { 407128000, 407128001, 515074000, 0, -1 }

\* -74.0060 and -74.0060004, -0.1278, 74.0060
KeyLongitudes == { -740060000, -740060004, -1278000, 740060000 }

\* 0.5 km, 0.5004 km, 1 km
KeyRadii == { 5000, 5004, 10000 }

\* generate_cache_key, twice in a row at most
GenerateCacheKeyCall ==
    \E latitude \in KeyLatitudes, longitude \in KeyLongitudes, radius \in KeyRadii :
        LET call == [latitude |-> latitude, longitude |-> longitude, radius |-> radius,
                     key |-> GenerateCacheKey(latitude, longitude, radius)]
        IN  /\ geo_out.op = "none" \/ (geo_out.op = "generate_cache_key" /\ Len(geo_out.calls) < 2)
            /\ geo_out' = [op |-> "generate_cache_key",
                           calls |-> IF geo_out.op = "none" THEN <<call>>
                                     ELSE Append(geo_out.calls, call)]
            /\ UNCHANGED <<stageVars, ray_out, converter, terrain_generator, serverVars, uiVars, loaderVars>>

InitCacheKey == InitProjection

NextCacheKey == GenerateCacheKeyCall

SpecCacheKey == InitCacheKey /\ [][NextCacheKey]_vars

----------------------------------------------------------------------------
(* BuildingLoader.load_scene_data as a whole call: the in-memory cache, the *)
(* attempts on the Overpass API and what is returned.  Latitudes and        *)
(* longitudes are in units of 1/1000000 degree.  What the network does is   *)
(* an input: the outcome of each attempt and the body of the response.      *)

\* "for attempt in range(3)"
MaxAttempts == 3

\* the calls made on one loader
MaxLoaderCalls == 2

\* f"{value:.5f}": the value rounded to five decimal places
FormatFive(value) == RoundDiv(value, 10)

\* cache_key = f"scene_{latitude:.5f},{longitude:.5f},{radius_km}"
SceneCacheKey(latitude, longitude, radius_km) ==
    <<"scene", FormatFive(latitude), FormatFive(longitude), radius_km>>

\* self._cache[cache_key] = value
CachePut(cache, cache_key, value) ==
    [k \in DOMAIN cache \cup {cache_key} |-> IF k = cache_key THEN value ELSE cache[k]]

\* {"buildings": [], "roads": []}
EmptyScene == [buildings |-> <<>>, roads |-> <<>>]

\* a loop that waits after every failed attempt
SleepAfterAlways(attempt) == TRUE

\* "if attempt < 2": time.sleep(5) after a failed attempt that is not the last
SleepAfter(attempt) == attempt < 2

\* the except clause of one attempt: last_error = e, and the wait
AttemptFailed(st, attempt, error) ==
    [st EXCEPT !.last_error = {error},
               !.trace = IF SleepAfter(attempt) THEN Append(@, "sleep") ELSE @]

\* The for loop from attempt on.  outcomes[attempt + 1] is what the attempt
\* does: "ok" (requests.post returns a response that raise_for_status
\* accepts, then break), "http_error" (requests.post returns a response and
\* raise_for_status raises) or "exception" (requests.post raises, response
\* keeps its value).  trace lists the posts and the sleeps in order.
RECURSIVE RetryLoop(_, _, _)
RetryLoop(outcomes, attempt, st) ==
    IF attempt = MaxAttempts THEN st
    ELSE LET posted == [st EXCEPT !.trace = Append(@, "post")]
         IN  CASE outcomes[attempt + 1] = "ok" -> [posted EXCEPT !.response = {"ok"}]
               [] outcomes[attempt + 1] = "http_error" ->
                    RetryLoop(outcomes, attempt + 1,
                              AttemptFailed([posted EXCEPT !.response = {"error"}],
                                            attempt, "HTTPError"))
               [] outcomes[attempt + 1] = "exception" ->
                    RetryLoop(outcomes, attempt + 1,
                              AttemptFailed(posted, attempt, "ConnectionError"))

\* load_scene_data with the loader's cache: [cache, trace, result].  A key
\* of the cache returns its entry.  Otherwise the loop runs; "response is
\* None or not response.ok" raises, and so does response.json() on a body
\* that is not JSON: both except clauses return the empty lists and store
\* nothing.  A body that parses is stored under the key and returned.
LoadSceneDataWithRetry(cache, cache_key, outcomes, body) ==
    IF cache_key \in DOMAIN cache
    THEN [cache |-> cache, trace |-> <<>>, result |-> cache[cache_key]]
    ELSE LET loop == RetryLoop(outcomes, 0, [trace |-> <<>>, response |-> {},
                                             last_error |-> {}])
             scene_data == [buildings |-> LoadSceneData(body.elem, body.coordinates),
                            roads |-> <<>>]
         IN  IF loop.response # {"ok"} \/ ~body.json
             THEN [cache |-> cache, trace |-> loop.trace, result |-> EmptyScene]
             ELSE [cache |-> CachePut(cache, cache_key, scene_data), trace |-> loop.trace,
                   result |-> scene_data]

\* two places that format to one key, and a third with a key of its own
FetchLatitudes == { 40712800, 40712803, 40712900 }
FetchLongitudes == { -74006000 }
FetchRadii == { 5 }

AttemptOutcomes == { "ok", "http_error", "exception" }

\* a way with a height tag, and the same way two levels high
HouseWay ==
    [id |-> 41, tags |-> [building |-> {"house"}, height |-> {<<"2", "0">>},
                          building_height |-> {}, levels |-> {}]]
LowWay ==
    [id |-> 41, tags |-> [building |-> {"yes"}, height |-> {}, building_height |-> {},
                          levels |-> {<<"3">>}]]

\* the bodies of the responses: JSON with one way, or no JSON at all
ResponseBodies ==
    { [json |-> j, elem |-> w, coordinates |-> At(SceneRef, CenteredSquareOffsets)] :
      j \in BOOLEAN, w \in { HouseWay, LowWay } }

\* one call of load_scene_data on the loader
LoadSceneDataRequest ==
    \E latitude \in FetchLatitudes, longitude \in FetchLongitudes, radius_km \in FetchRadii,
       outcomes \in [1..MaxAttempts -> AttemptOutcomes], body \in ResponseBodies :
        LET cache_key == SceneCacheKey(latitude, longitude, radius_km)
            r == LoadSceneDataWithRetry(building_loader.cache, cache_key, outcomes, body)
        IN  /\ building_loader.calls < MaxLoaderCalls
            /\ building_loader' =
                 [cache |-> r.cache, calls |-> building_loader.calls + 1,
                  out |-> [op |-> "load_scene_data", cache_key |-> cache_key,
                           outcomes |-> outcomes, body |-> body, trace |-> r.trace,
                           result |-> r.result]]
            /\ UNCHANGED <<stageVars, rayVars, geoVars, serverVars, uiVars, terrain_loader>>

InitFetch == InitProjection

NextFetch == LoadSceneDataRequest

SpecFetch == InitFetch /\ [][NextFetch]_vars

----------------------------------------------------------------------------
(* TerrainLoader.load_elevation_grid: the grid of locations, the batches    *)
(* posted to the elevation service, and the grid built from the results.    *)
(* A location is written by its row i and column j: its latitude is         *)
(* lat_min + i * lat_spacing and its longitude lon_min + j * lon_spacing.   *)
(* What the service does with a post is an input.                           *)

\* BATCH_SIZE = 100
BatchSize == 100

\* the calls made on one terrain loader
MaxTerrainCalls == 2

\* cache_key = f"{center_lat:.5f},{center_lon:.5f},{radius_m},{grid_resolution}"
TerrainCacheKey(center_lat, center_lon, radius_m, grid_resolution) ==
    <<FormatFive(center_lat), FormatFive(center_lon), radius_m, grid_resolution>>

\* the nested loops over i and j: locations in row-major order
Locations(grid_resolution) ==
    [idx \in 1..(grid_resolution * grid_resolution) |->
        [latitude |-> (idx - 1) \div grid_resolution,
         longitude |-> (idx - 1) % grid_resolution]]

\* the elevation of the ground at a location: no two locations of a grid
\* are equally high, and none is at sea level
ElevationAt(location) == 1 + 20 * location.latitude + location.longitude

\* The service's answer to a post, as the list of results or the empty set
\* when requests.post or raise_for_status raises: "ok" is one result per
\* location in the order of the locations, "short" lacks the last of them,
\* "long" has the last of them twice, "failed" raises.
Respond(batch_locations, outcome) ==
    LET results == [k \in 1..Len(batch_locations) |->
                       [elevation |-> ElevationAt(batch_locations[k])]]
    IN  CASE outcome = "ok" -> {results}
          [] outcome = "short" -> {SubSeq(results, 1, Len(results) - 1)}
          [] outcome = "long" -> {Append(results, results[Len(results)])}
          [] outcome = "failed" -> {}

\* a failed batch that adds nothing to the results
ZeroFillNone(batch_locations) == <<>>

\* [{"elevation": 0.0} for _ in batch_locations]
ZeroFill(batch_locations) == [k \in 1..Len(batch_locations) |-> [elevation |-> 0]]

\* num_batches = (total_points + BATCH_SIZE - 1) // BATCH_SIZE
NumBatches(total_points) == (total_points + BatchSize - 1) \div BatchSize

\* The loop over the batches from batch_idx on (0-based): the slice
\* locations[start_idx:end_idx] is posted, and its results or the zeros of
\* a failed batch extend all_results.  posted lists the slices in order.
RECURSIVE FetchBatches(_, _, _, _)
FetchBatches(locations, batch_idx, outcomes, st) ==
    IF batch_idx = NumBatches(Len(locations)) THEN st
    ELSE LET start_idx == batch_idx * BatchSize
             end_idx == IF start_idx + BatchSize < Len(locations)
                        THEN start_idx + BatchSize ELSE Len(locations)
             batch_locations == SubSeq(locations, start_idx + 1, end_idx)
             response == Respond(batch_locations, outcomes[batch_idx + 1])
         IN  FetchBatches(locations, batch_idx + 1, outcomes,
                 [posted |-> Append(st.posted, batch_locations),
                  all_results |-> st.all_results \o
                      (IF response = {} THEN ZeroFill(batch_locations)
                       ELSE The(response))])

\* elevation_grid[i, j] = results[idx].get("elevation", 0.0) with
\* i = idx // grid_resolution and j = idx % grid_resolution
ElevationGrid(results, grid_resolution) ==
    [i \in 0..(grid_resolution - 1) |->
        [j \in 0..(grid_resolution - 1) |-> results[i * grid_resolution + j + 1].elevation]]

\* load_elevation_grid with the loader's cache: [cache, posted, result],
\* the result being the set of the grid, or the empty set for None.  A key
\* of the cache returns its entry.  More than BATCH_SIZE locations go out
\* in batches; fewer go out in one post, whose failure ends the call with
\* None.  A number of results that is not the number of locations gives
\* None as well.  The grid is stored under the key and returned.
LoadElevationGrid(cache, cache_key, grid_resolution, outcomes) ==
    IF cache_key \in DOMAIN cache
    THEN [cache |-> cache, posted |-> <<>>, result |-> {cache[cache_key]}]
    ELSE LET locations == Locations(grid_resolution)
             fetched ==
                 IF Len(locations) > BatchSize
                 THEN LET st == FetchBatches(locations, 0, outcomes,
                                             [posted |-> <<>>, all_results |-> <<>>])
                      IN  [posted |-> st.posted, results |-> {st.all_results}]
                 ELSE [posted |-> <<locations>>, results |-> Respond(locations, outcomes[1])]
         IN  IF fetched.results = {} \/ Len(The(fetched.results)) # Len(locations)
             THEN [cache |-> cache, posted |-> fetched.posted, result |-> {}]
             ELSE LET elevation_grid == ElevationGrid(The(fetched.results), grid_resolution)
                  IN  [cache |-> CachePut(cache, cache_key, elevation_grid),
                       posted |-> fetched.posted, result |-> {elevation_grid}]

\* grids of 4, 121 and 225 locations: one post, two batches, three batches
GridResolutions == { 2, 11, 15 }

BatchOutcomes == { "ok", "short", "long", "failed" }

\* the posts a call makes when the key is not in the cache
PostsOf(grid_resolution) ==
    IF grid_resolution * grid_resolution > BatchSize
    THEN NumBatches(grid_resolution * grid_resolution)
    ELSE 1

\* one call of load_elevation_grid on the loader, around the first of
\* FetchLatitudes with a radius of 500 m
LoadElevationGridRequest ==
    \E center_lat \in {40712800}, center_lon \in FetchLongitudes, radius_m \in {500},
       grid_resolution \in GridResolutions :
      \E outcomes \in [1..PostsOf(grid_resolution) -> BatchOutcomes] :
        LET cache_key == TerrainCacheKey(center_lat, center_lon, radius_m, grid_resolution)
            r == LoadElevationGrid(terrain_loader.cache, cache_key, grid_resolution, outcomes)
        IN  /\ terrain_loader.calls < MaxTerrainCalls
            /\ terrain_loader' =
                 [cache |-> r.cache, calls |-> terrain_loader.calls + 1,
                  out |-> [op |-> "load_elevation_grid", cache_key |-> cache_key,
                           grid_resolution |-> grid_resolution, outcomes |-> outcomes,
                           posted |-> r.posted, result |-> r.result]]
            /\ UNCHANGED <<stageVars, rayVars, geoVars, serverVars, uiVars, building_loader>>

InitTerrainLoader == InitProjection

NextTerrainLoader == LoadElevationGridRequest

SpecTerrainLoader == InitTerrainLoader /\ [][NextTerrainLoader]_vars

----------------------------------------------------------------------------
(* The running application: the query_shadow handlers of the REST server,   *)
(* the main thread's update (process_main_thread_queue), the UI's combined   *)
(* map load and the UI's own query.  A handler runs between two awaits       *)
(* without interruption; everything on the main thread runs one callback     *)
(* at a time.                                                                *)

\* the number of request ids that are handed out
MaxRequests == 2

\* what calculate_sun_position returns for the times of the requests:
\* overhead, on the horizon, below it
SunPositions ==
    { [azimuth |-> 180, elevation |-> 90], [azimuth |-> 180, elevation |-> 0],
      [azimuth |-> 180, elevation |-> -30] }

\* the point queried: the middle of the square's footprint
QueryGps == { <<BuildingsRef[1] + 5, BuildingsRef[2] + 10>> }

\* what load_scene_data returns for a map load
LoadLists == { <<SquareBuilding>>, <<>> }

\* what load_elevation_grid returns: None or a grid
LoadGrids == { {}, {SlopeGrid} }

\* The variables ray_out, last_response and query_log describe the step just
\* taken: the call of is_point_in_shadow it made, the response it sent and
\* the queries it ran on the main thread.

\* the buildings a query ran against while a map load is in progress
Seen(buildings_prim) ==
    IF ui.load_pc = "idle" THEN ui.seen ELSE ui.seen \cup {buildings_prim}

\* query_shadow up to its first await, for a request with one of the points:
\* the night answer, or a task queued
QueryShadowAt(c, points) ==
    /\ clients[c].pc = "idle"
    /\ \E gps \in points, sun \in SunPositions :
          IF IsNight(sun.elevation)
          THEN /\ last_response' =
                      [elevation |-> sun.elevation, request_id |-> {},
                       response |-> NightResponse]
               /\ UNCHANGED <<request_queue, result_map, next_request_id, clients>>
          ELSE /\ next_request_id < MaxRequests
               /\ next_request_id' = next_request_id + 1
               /\ request_queue' =
                      Append(request_queue,
                             [request_id |-> next_request_id, latitude |-> gps[1],
                              longitude |-> gps[2], azimuth |-> sun.azimuth,
                              elevation |-> sun.elevation])
               /\ clients' = [clients EXCEPT ![c] =
                                 [pc |-> "waiting", request_id |-> next_request_id,
                                  latitude |-> gps[1], longitude |-> gps[2],
                                  azimuth |-> sun.azimuth, elevation |-> sun.elevation]]
               /\ last_response' = NoResponse
               /\ UNCHANGED result_map
    /\ ray_out' = RayNotCalled
    /\ query_log' = NoQuery
    /\ UNCHANGED <<stageVars, geoVars, ui, loaderVars>>

QueryShadow(c) == QueryShadowAt(c, QueryGps)

\* a polling loop that takes whichever result is in the map
PollResultAnyEntry(c) ==
    /\ clients[c].pc = "waiting"
    /\ \E id \in DOMAIN result_map :
          /\ result_map' = Pop(result_map, id)
          /\ last_response' =
                 [elevation |-> clients[c].elevation,
                  request_id |-> {clients[c].request_id},
                  response |-> ResultResponse(result_map[id])]
    /\ clients' = [clients EXCEPT ![c] = [pc |-> "idle"]]
    /\ ray_out' = RayNotCalled
    /\ query_log' = NoQuery
    /\ UNCHANGED <<request_queue, next_request_id, stageVars, geoVars, ui, loaderVars>>

\* the polling loop of query_shadow finds its result
PollResult(c) ==
    /\ clients[c].pc = "waiting"
    /\ clients[c].request_id \in DOMAIN result_map
    /\ result_map' = Pop(result_map, clients[c].request_id)
    /\ last_response' =
           [elevation |-> clients[c].elevation,
            request_id |-> {clients[c].request_id},
            response |-> ResultResponse(result_map[clients[c].request_id])]
    /\ clients' = [clients EXCEPT ![c] = [pc |-> "idle"]]
    /\ ray_out' = RayNotCalled
    /\ query_log' = NoQuery
    /\ UNCHANGED <<request_queue, next_request_id, stageVars, geoVars, ui, loaderVars>>

\* the polling loop of query_shadow runs out of time
PollTimeout(c) ==
    /\ clients[c].pc = "waiting"
    /\ last_response' =
           [elevation |-> clients[c].elevation,
            request_id |-> {clients[c].request_id}, response |-> TimeoutResponse]
    /\ clients' = [clients EXCEPT ![c] = [pc |-> "idle"]]
    /\ ray_out' = RayNotCalled
    /\ query_log' = NoQuery
    /\ UNCHANGED <<request_queue, result_map, next_request_id, stageVars, geoVars, ui, loaderVars>>

\* an update that takes the tasks off the queue and stores nothing
OnUpdateDropsTasks ==
    /\ Len(request_queue) > 0
    /\ request_queue' = <<>>
    /\ ray_out' = RayNotCalled
    /\ query_log' = [source |-> "api", load_pc |-> ui.load_pc,
                     elevations |-> { request_queue[k].elevation : k \in 1..Len(request_queue) },
                     cast |-> FALSE, label |-> ""]
    /\ ui' = [ui EXCEPT !.seen = Seen(stage_buildings)]
    /\ last_response' = NoResponse
    /\ UNCHANGED <<stageVars, geoVars, result_map, next_request_id, clients, loaderVars>>

\* _on_update of the API extension: process_main_thread_queue empties the queue
OnUpdate ==
    /\ Len(request_queue) > 0
    /\ LET acc == ProcessLoop(request_queue, stage_buildings, 1,
                              [result_map |-> result_map, converter |-> converter, ray |-> {}])
       IN  /\ result_map' = acc.result_map
           /\ converter' = acc.converter
           /\ ray_out' = IF acc.ray = {} THEN RayNotCalled ELSE The(acc.ray)
           /\ query_log' = [source |-> "api", load_pc |-> ui.load_pc,
                            elevations |->
                                { request_queue[k].elevation : k \in 1..Len(request_queue) },
                            cast |-> acc.ray # {}, label |-> ""]
    /\ request_queue' = <<>>
    /\ ui' = [ui EXCEPT !.seen = Seen(stage_buildings)]
    /\ last_response' = NoResponse
    /\ UNCHANGED <<stageVars, terrain_generator, geo_out, next_request_id, clients, loaderVars>>

\* the "Load Map" button: _load_map_with_terrain schedules _do_load
LoadMapClick ==
    /\ ui.load_pc = "idle"
    /\ ui' = [ui EXCEPT !.load_pc = "scheduled",
                        !.old_set = stage_buildings, !.seen = {}]
    /\ ray_out' = RayNotCalled
    /\ query_log' = NoQuery
    /\ last_response' = NoResponse
    /\ UNCHANGED <<stageVars, geoVars, request_queue, result_map, next_request_id, clients, loaderVars>>

\* _do_load after its first await: _load_buildings_sync
LoadBuildingsStep ==
    /\ ui.load_pc = "scheduled"
    /\ \E buildings_data \in LoadLists :
          stage_buildings' =
              IF buildings_data = <<>> THEN stage_buildings      \* "No data found": return
              ELSE CreateBuildingsFromData(NewConverter, NoBuildingsPrim, stage_terrain,
                                           buildings_data, BuildingsRef[1], BuildingsRef[2]
                                          ).buildings_prim
    /\ ui' = [ui EXCEPT !.load_pc = "buildings_loaded"]
    /\ ray_out' = RayNotCalled
    /\ query_log' = NoQuery
    /\ last_response' = NoResponse
    /\ UNCHANGED <<stage_terrain, geoVars, request_queue, result_map, next_request_id, clients, loaderVars>>

\* _do_load after its second await: _load_terrain_sync
LoadTerrainStep ==
    /\ ui.load_pc = "buildings_loaded"
    /\ \E result \in LoadGrids :
          IF result = {}
          THEN UNCHANGED <<stageVars, terrain_generator>>        \* "Error loading terrain data"
          ELSE LET r == CreateTerrainMesh(NewTerrainGenerator, The(result),
                                          BuildingsRef[1], BuildingsRef[2],
                                          GridSpacing[1], GridSpacing[2],
                                          BuildingsRef[1], BuildingsRef[2])
               IN  /\ terrain_generator' = r.terrain_generator
                   /\ stage_terrain' = r.terrain_prim
                   /\ stage_buildings' =
                          IF stage_buildings.exists
                          THEN AdjustBuildingsForTerrain(stage_buildings, r.terrain_prim)
                          ELSE stage_buildings
    /\ ui' = [ui EXCEPT !.load_pc = "idle", !.old_set = NoBuildingsPrim, !.seen = {}]
    /\ ray_out' = RayNotCalled
    /\ query_log' = NoQuery
    /\ last_response' = NoResponse
    /\ UNCHANGED <<converter, geo_out, request_queue, result_map, next_request_id, clients, loaderVars>>

\* a query from the UI: _on_viewport_click and _query_point_for_shadow, with
\* the reference of the buildings or, without buildings, that of the UI
ViewportClick ==
    /\ \E gps \in QueryGps, sun \in SunPositions :
        LET ref == LoadReferencePointFromScene(NewConverter, stage_buildings)
            conv == IF ref.loaded THEN ref.converter
                    ELSE SetReferencePoint(NewConverter, BuildingsRef[1], BuildingsRef[2])
            xz == The(GpsToSceneCoords(conv, gps[1], gps[2]).value)
        IN  IF sun.elevation <= 0
            THEN /\ ui' = ui
                 /\ ray_out' = RayNotCalled
                 /\ query_log' = [source |-> "ui", load_pc |-> ui.load_pc,
                                  elevations |-> {sun.elevation}, cast |-> FALSE,
                                  label |-> "NIGHT"]
            ELSE /\ ray_out' = RayCallOn(stage_buildings, <<xz[1], 0, xz[2]>>,
                                         GetSunDirectionVector(sun.azimuth, sun.elevation),
                                         MaxDistance)
                 /\ ui' = [ui EXCEPT !.seen = Seen(stage_buildings)]
                 /\ query_log' = [source |-> "ui", load_pc |-> ui.load_pc,
                                  elevations |-> {sun.elevation}, cast |-> TRUE,
                                  label |-> IF ray_out'.is_shadowed THEN "SHADOW"
                                            ELSE "SUNLIGHT"]
    /\ last_response' = NoResponse
    /\ UNCHANGED <<stageVars, geoVars, request_queue, result_map, next_request_id, clients, loaderVars>>

Init ==
    /\ stage_buildings = NoBuildingsPrim
    /\ stage_terrain = NoTerrainPrim
    /\ ray_out = RayNotCalled
    /\ converter = NewConverter
    /\ terrain_generator = NewTerrainGenerator
    /\ geo_out = GeoNotCalled
    /\ ServerInit
    /\ UiInit
    /\ LoaderInit

Next ==
    \/ \E c \in Clients : QueryShadow(c)
    \/ \E c \in Clients : PollResult(c)
    \/ \E c \in Clients : PollTimeout(c)
    \/ OnUpdate
    \/ LoadMapClick
    \/ LoadBuildingsStep
    \/ LoadTerrainStep
    \/ ViewportClick

Spec == Init /\ [][Next]_vars

----------------------------------------------------------------------------
(* The REST server and the main thread's update on a stage that does not    *)
(* change: requests for a point under the square building and for a point   *)
(* beside it.                                                                *)

\* the middle of the square's footprint, and a point 10 units west of it
ServerGps ==
    { <<BuildingsRef[1] + 5, BuildingsRef[2] + 10>>, <<BuildingsRef[1] + 5, BuildingsRef[2] - 10>> }

\* the stage with the square building
SquareStage ==
    CreateBuildingsFromData(NewConverter, NoBuildingsPrim, NoTerrainPrim, <<SquareBuilding>>,
                            BuildingsRef[1], BuildingsRef[2]).buildings_prim

ServerQuery(c) == QueryShadowAt(c, ServerGps)

\* no buildings, or the square building
InitServer ==
    /\ stage_buildings \in { NoBuildingsPrim, SquareStage }
    /\ stage_terrain = NoTerrainPrim
    /\ ray_out = RayNotCalled
    /\ converter = NewConverter
    /\ terrain_generator = NewTerrainGenerator
    /\ geo_out = GeoNotCalled
    /\ ServerInit
    /\ UiInit
    /\ LoaderInit

NextServer ==
    \/ \E c \in Clients : ServerQuery(c)
    \/ \E c \in Clients : PollResult(c)
    \/ \E c \in Clients : PollTimeout(c)
    \/ OnUpdate

SpecServer == InitServer /\ [][NextServer]_vars

\* The polling loop of a handler runs every 50 ms until its result is there
\* or 10 s have passed: a waiting handler is answered.
FairServer == \A c \in Clients : WF_vars(PollResult(c) \/ PollTimeout(c))

LiveSpecServer == InitServer /\ [][NextServer]_vars /\ FairServer

----------------------------------------------------------------------------
(* The reference point across converters: the UI's converter creates and    *)
(* clears the buildings, and a converter that never saw the reference point *)
(* reads it back from the stage, as the API's converter does.               *)

\* reference points on the equator and at 60 degrees north and south
References == { <<0, 0>>, BuildingsRef, <<-Degrees(60), Degrees(100)>> }

\* building lists at a reference point: none, a square, a footprint of two
\* points that gives no mesh, and both
ReferenceLists(ref) ==
    LET square == [id |-> 1, type |-> "residential", coordinates |-> At(ref, SquareOffsets),
                   height |-> 30 * Scale]
        segment == [id |-> 3, type |-> "yes", coordinates |-> At(ref, SegmentOffsets),
                    height |-> 10 * Scale]
    IN  { <<>>, <<square>>, <<segment>>, <<square, segment>> }

\* the reference point of the buildings on the stage since the last
\* create_buildings_from_data, none after clear_buildings: kept by the
\* calls of this section in the field scene of geo_out
SceneOf(out) == IF out.op = "none" THEN {} ELSE out.scene

\* create_buildings_from_data with a reference point and a list
CreateBuildingsAtReference ==
    \E ref \in References :
      \E buildings \in ReferenceLists(ref) :
        LET r == CreateBuildingsFromData(converter, stage_buildings, stage_terrain, buildings,
                                         ref[1], ref[2])
        IN  /\ converter' = r.converter
            /\ stage_buildings' = r.buildings_prim
            /\ geo_out' = [op |-> "create_buildings_from_data", scene |-> {ref},
                           created_paths |-> r.created_paths]
            /\ UNCHANGED <<stage_terrain, terrain_generator, ray_out, serverVars, uiVars,
                           loaderVars>>

\* clear_buildings
ClearBuildingsAtReference ==
    /\ stage_buildings' = ClearBuildingsPrim(stage_buildings)
    /\ geo_out' = [op |-> "clear_buildings", scene |-> {}]
    /\ UNCHANGED <<stage_terrain, converter, terrain_generator, ray_out, serverVars, uiVars,
                   loaderVars>>

\* BuildingGeometryConverter(stage).load_reference_point_from_scene()
LoadReferencePointCall ==
    LET r == LoadReferencePointFromScene(NewConverter, stage_buildings)
    IN  /\ geo_out' = [op |-> "load_reference_point_from_scene", scene |-> SceneOf(geo_out),
                       loaded |-> r.loaded, reference_lat |-> r.converter.reference_lat,
                       reference_lon |-> r.converter.reference_lon]
        /\ UNCHANGED <<stageVars, converter, terrain_generator, ray_out, serverVars, uiVars,
                       loaderVars>>

\* _perform_shadow_check for a point beside the reference point of the
\* request's map, with the sun overhead.  The API's converter is a new one
\* or has the reference point of an earlier query, which is the one the
\* UI's converter has.
PerformShadowCheckCall ==
    \E ref \in References, conv \in {NewConverter, converter} :
        LET out == PerformShadowCheck(conv, stage_buildings, ref[1] + 5, ref[2] + 10, 180, 90)
        IN  /\ stage_buildings.reference \in {{}, {ref}}
            /\ ray_out' = IF out.ray = {} THEN RayNotCalled ELSE The(out.ray)
            /\ geo_out' = [op |-> "_perform_shadow_check", scene |-> SceneOf(geo_out),
                           result |-> out.result, cast |-> out.ray # {}]
            /\ UNCHANGED <<stageVars, converter, terrain_generator, serverVars, uiVars,
                           loaderVars>>

InitReference == InitProjection

NextReference ==
    \/ CreateBuildingsAtReference
    \/ ClearBuildingsAtReference
    \/ LoadReferencePointCall
    \/ PerformShadowCheckCall

SpecReference == InitReference /\ [][NextReference]_vars

----------------------------------------------------------------------------
(* Claims about the ray caster, checked under SpecRay *)

MeshTris(mesh) == MeshTriangles(mesh.points, mesh.face_counts, mesh.face_indices, 1)

\* the distances at which the ray of the recorded call meets a triangle of
\* the mesh (Moller-Trumbore passes its parallel and barycentric tests)
RawDistances(mesh) ==
    LET tris == MeshTris(mesh)
    IN  { MollerTrumbore(RayOrigin(ray_out.point), RayDirection(ray_out.sun_direction),
                         tris[k][1], tris[k][2], tris[k][3]).t :
            k \in { j \in 1..Len(tris) :
                      MollerTrumbore(RayOrigin(ray_out.point), RayDirection(ray_out.sun_direction),
                                     tris[j][1], tris[j][2], tris[j][3]).kind = "t" } }

\* 1e-6 < t < max_distance
InsideBounds(t) == GreaterThanEpsilon(t) /\ LessThanInt(t, ray_out.max_distance)

AcceptedDistances(mesh) == { t \in RawDistances(mesh) : InsideBounds(t) }

StageMeshes == { stage_buildings.meshes[k] : k \in 1..Len(stage_buildings.meshes) }

\* C2: is_point_in_shadow returns is_shadowed = true if and only if some
\* triangle of some building mesh yields an accepted hit; the blocking
\* identifier is set exactly when is_shadowed is true, to a building that
\* owns an accepted hit.
C2_ShadowedIffAcceptedHit ==
    ray_out.called =>
        /\ ray_out.is_shadowed <=> (\E mesh \in StageMeshes : AcceptedDistances(mesh) # {})
        /\ (ray_out.blocking # {}) <=> ray_out.is_shadowed
        /\ \A path \in ray_out.blocking :
              \E mesh \in StageMeshes : mesh.path = path /\ AcceptedDistances(mesh) # {}

\* a ray that meets one triangle only, of one building, reports that building
C2_Witness ==
    /\ ray_out.called /\ ray_out.is_shadowed
    /\ Len(stage_buildings.meshes) = 2
    /\ \E mesh \in StageMeshes :
          /\ ray_out.blocking = {mesh.path}
          /\ Cardinality(AcceptedDistances(mesh)) = 1
          /\ \A other \in StageMeshes \ {mesh} : AcceptedDistances(other) = {}

\* buildings are loaded and no triangle yields an accepted hit
C2_WitnessSunlit ==
    /\ ray_out.called /\ ~ray_out.is_shadowed /\ ray_out.blocking = {}
    /\ Len(stage_buildings.meshes) = 2 /\ ray_out.max_distance = 100000

\* the least accepted distance of a mesh that has one
MinDistance(mesh) ==
    CHOOSE t \in AcceptedDistances(mesh) : \A u \in AcceptedDistances(mesh) : ~FracLess(u, t)

\* C3: the blocking mesh owns the minimum accepted distance over all meshes
\* and triangles; when several meshes attain that minimum, the first of them
\* in iteration order is reported.
C3_ClosestMeshFirstOnTies ==
    (ray_out.called /\ ray_out.is_shadowed) =>
        \E k \in 1..Len(stage_buildings.meshes) :
            /\ ray_out.blocking = {stage_buildings.meshes[k].path}
            /\ AcceptedDistances(stage_buildings.meshes[k]) # {}
            /\ ray_out.distance = {MinDistance(stage_buildings.meshes[k])}
            /\ \A j \in 1..Len(stage_buildings.meshes) :
                  AcceptedDistances(stage_buildings.meshes[j]) # {} =>
                     /\ ~FracLess(MinDistance(stage_buildings.meshes[j]),
                                  MinDistance(stage_buildings.meshes[k]))
                     /\ FracEq(MinDistance(stage_buildings.meshes[j]),
                               MinDistance(stage_buildings.meshes[k])) => k <= j

\* two meshes tie for the minimum and the first one is reported
C3_Witness ==
    /\ ray_out.called /\ ray_out.is_shadowed
    /\ Len(stage_buildings.meshes) = 2
    /\ AcceptedDistances(stage_buildings.meshes[1]) # {}
    /\ AcceptedDistances(stage_buildings.meshes[2]) # {}
    /\ FracEq(MinDistance(stage_buildings.meshes[1]), MinDistance(stage_buildings.meshes[2]))
    /\ ray_out.blocking = {stage_buildings.meshes[1].path}

\* the second mesh is strictly closer than the first and is the one reported
C3_WitnessSecondCloser ==
    /\ ray_out.called /\ ray_out.is_shadowed
    /\ Len(stage_buildings.meshes) = 2
    /\ AcceptedDistances(stage_buildings.meshes[1]) # {}
    /\ AcceptedDistances(stage_buildings.meshes[2]) # {}
    /\ FracLess(MinDistance(stage_buildings.meshes[2]), MinDistance(stage_buildings.meshes[1]))
    /\ ray_out.blocking = {stage_buildings.meshes[2].path}

\* C4: a hit is accepted only if 1e-6 < t < max_distance, in every mesh and
\* in the result; a query whose every intersection lies at max_distance or
\* beyond, or not in front of the origin, is not shadowed and has no blocking
\* object.
C4_HitWithinBounds ==
    ray_out.called =>
        /\ \A k \in 1..Len(stage_buildings.meshes) :
              LET hit_result == MeshHits(stage_buildings, ray_out.point, ray_out.sun_direction,
                                         ray_out.max_distance)[k]
              IN  hit_result.hit => InsideBounds(hit_result.t)
        /\ \A t \in ray_out.distance : InsideBounds(t)
        /\ (\A mesh \in StageMeshes : \A t \in RawDistances(mesh) : ~InsideBounds(t))
              => (~ray_out.is_shadowed /\ ray_out.blocking = {})

\* the ray meets a wall at exactly max_distance and the query is not shadowed
C4_Witness ==
    /\ ray_out.called /\ ~ray_out.is_shadowed
    /\ \E mesh \in StageMeshes : FracOfInt(ray_out.max_distance) \in RawDistances(mesh)

\* the only intersection lies behind the origin
C4_WitnessBehind ==
    /\ ray_out.called /\ ~ray_out.is_shadowed
    /\ ray_out.max_distance = 100000
    /\ \E mesh \in StageMeshes : \E t \in RawDistances(mesh) : t.num < 0

----------------------------------------------------------------------------
(* Claims about the converter's batches, checked under SpecBuildings *)

\* the records whose footprint has at least 3 points, in input order
ValidRecords(buildings) == SelectSeq(buildings, LAMBDA b : Len(b.coordinates) >= 3)

MeshPaths(buildings_prim) ==
    { buildings_prim.meshes[k].path : k \in 1..Len(buildings_prim.meshes) }

\* C6: every step that is a call of create_buildings_from_data (the step
\* after which geo_out names it) returns one path per record with at least
\* 3 footprint points, in input order, whatever records with fewer points
\* stand before, between or after them; the stage gains a mesh at each
\* returned path and at no other path.
C6_DegenerateFootprintsSkipped ==
    [][geo_out'.op = "create_buildings_from_data" =>
          LET valid == ValidRecords(geo_out'.buildings)
              created_paths == geo_out'.created_paths
          IN  /\ Len(created_paths) = Len(valid)
              /\ \A k \in 1..Len(valid) : created_paths[k] = BuildingPath(valid[k].id)
              /\ MeshPaths(stage_buildings') =
                     MeshPaths(stage_buildings) \cup
                     { BuildingPath(valid[k].id) : k \in 1..Len(valid) }]_vars

\* a 2-point record first, then a record with a real footprint: one path
C6_Witness ==
    /\ geo_out.op = "create_buildings_from_data"
    /\ Len(geo_out.buildings) = 2
    /\ Len(geo_out.buildings[1].coordinates) = 2
    /\ Len(geo_out.buildings[2].coordinates) >= 3
    /\ geo_out.created_paths = <<BuildingPath(geo_out.buildings[2].id)>>
    /\ MeshPaths(stage_buildings) = {BuildingPath(geo_out.buildings[2].id)}

\* the elevation of the terrain vertex nearest to (x, z), the first such
\* vertex when several are equally near; 0 without terrain
NearestVertexElevation(terrain_prim, x, z) ==
    IF ~terrain_prim.exists \/ Len(terrain_prim.points) = 0 THEN 0
    ELSE LET points == terrain_prim.points
             nearest == { k \in 1..Len(points) :
                            \A j \in 1..Len(points) : DistSq(points[k], x, z) <= DistSq(points[j], x, z) }
             first == CHOOSE k \in nearest : \A j \in nearest : k <= j
         IN  points[first][2]

\* the records of the last batch that determine the mesh at their path: of
\* several records with one id, the last with a real footprint
DeterminingRecords ==
    LET buildings == geo_out.buildings
    IN  { k \in 1..Len(buildings) :
            /\ Len(buildings[k].coordinates) >= 3
            /\ \A j \in (k + 1)..Len(buildings) :
                  buildings[j].id = buildings[k].id => Len(buildings[j].coordinates) < 3 }

MeshAt(path) == CHOOSE mesh \in StageMeshes : mesh.path = path

\* C10: after a batch, the mesh of a building with n >= 3 footprint points
\* has 2n vertices; vertex i is the projection of footprint point i at
\* y = base_elevation and vertex n + i is the same (x, z) at base_elevation +
\* height, where n * base_elevation is the sum of the terrain elevations at the
\* n projected points, and base_elevation is 0 when there is no terrain.
C10_PrismVertices ==
    geo_out.op = "create_buildings_from_data" =>
        \A k \in DeterminingRecords :
            LET building == geo_out.buildings[k]
                n == Len(building.coordinates)
                mesh == MeshAt(BuildingPath(building.id))
                xz == [i \in 1..n |->
                          The(GpsToSceneCoords(converter, building.coordinates[i][1],
                                               building.coordinates[i][2]).value)]
                samples == [i \in 1..n |->
                               NearestVertexElevation(stage_terrain, xz[i][1], xz[i][2])]
                base_elevation == mesh.points[1][2]
            IN  /\ Len(mesh.points) = 2 * n
                /\ n * base_elevation = SumTo(samples, n)
                /\ ~stage_terrain.exists => base_elevation = 0
                /\ \A i \in 1..n :
                      /\ mesh.points[i] = <<xz[i][1], base_elevation, xz[i][2]>>
                      /\ mesh.points[n + i] =
                             <<xz[i][1], base_elevation + building.height, xz[i][2]>>

\* the square on the sloping terrain: four different samples, their mean
\* under the bottom ring
C10_Witness ==
    /\ geo_out.op = "create_buildings_from_data"
    /\ stage_terrain.exists
    /\ \E k \in DeterminingRecords :
          LET building == geo_out.buildings[k]
              mesh == MeshAt(BuildingPath(building.id))
          IN  /\ Len(building.coordinates) = 4
              /\ Len(mesh.points) = 8
              /\ mesh.points[1][2] = 120
              /\ mesh.points[5][2] = 120 + building.height
              /\ NearestVertexElevation(stage_terrain, mesh.points[1][1], mesh.points[1][3]) = 240
              /\ NearestVertexElevation(stage_terrain, mesh.points[3][1], mesh.points[3][3]) = 0

\* a batch without terrain: the bottom ring at 0
C10_WitnessNoTerrain ==
    /\ geo_out.op = "create_buildings_from_data"
    /\ ~stage_terrain.exists
    /\ \E k \in DeterminingRecords :
          MeshAt(BuildingPath(geo_out.buildings[k].id)).points[1][2] = 0

----------------------------------------------------------------------------
(* Claims about the projection, checked under SpecProjection *)

\* C7: a step that is a call of gps_to_scene_coords on a converter whose reference latitude
\* or longitude is unset raises, returns no coordinates and leaves the
\* converter as it was.
C7_UnsetReferenceRaises ==
    [][(/\ geo_out'.op = "gps_to_scene_coords"
        /\ (converter.reference_lat = {} \/ converter.reference_lon = {})) =>
          /\ geo_out'.result.raised
          /\ geo_out'.result.value = {}
          /\ converter' = converter]_vars

C7_Witness ==
    /\ geo_out.op = "gps_to_scene_coords"
    /\ converter.reference_lat = {}
    /\ geo_out.result.raised
    /\ geo_out.result.value = {}

\* the distance of a fraction of angle units from an integer number of them
\* is at most 1/hundredths
FracNear(a, n, hundredths) ==
    LET diff == FracAdd(a, FracOfInt(-n))
    IN  Abs(diff.num) * hundredths <= diff.den

\* 2 km in scene units
TwoKilometres == 2000 * Scale

\* C8 (as the specification states it): a point within 2 km of the reference,
\* projected by gps_to_scene_coords and mapped back by the terrain sampler
\* that holds the same reference, comes back as the same latitude and
\* longitude to within 1 cm (a hundredth of an angle unit of latitude, and
\* no more than that of longitude).
C8_RoundTripReturnsPoint ==
    (/\ geo_out.op = "round_trip"
     /\ geo_out.gps # {}
     /\ terrain_generator.reference_lat = converter.reference_lat
     /\ terrain_generator.reference_lon = converter.reference_lon
     /\ geo_out.x * geo_out.x + geo_out.z * geo_out.z <= TwoKilometres * TwoKilometres)
    => /\ FracNear(The(geo_out.gps)[1], geo_out.lat, 100)
       /\ FracNear(The(geo_out.gps)[2], geo_out.lon, 100)

\* C9 (as the specification states it): x = -(delta_lon * 111000 *
\* cos(reference latitude)) and z = delta_lat * 111000, so that a point with
\* the same longitude at any other latitude has the same x.
C9_ScaleFromReferenceLatitude ==
    (geo_out.op = "gps_to_scene_coords" /\ ~geo_out.result.raised) =>
        LET reference_lat == The(converter.reference_lat)
            reference_lon == The(converter.reference_lon)
            mplon == MetersPerLonDegree(reference_lat)
            xz == The(geo_out.result.value)
        IN  /\ xz[2] = (geo_out.lat - reference_lat) * SceneUnitsPerLatUnit
            /\ xz[1] * mplon.den = -((geo_out.lon - reference_lon) * mplon.num)
            /\ \A lat \in GeoLats :
                  The(GpsToSceneCoords(converter, lat, geo_out.lon).value)[1] = xz[1]

----------------------------------------------------------------------------
(* Claims about the running application, checked under Spec *)

\* C1: a query whose sun elevation is <= 0 is answered "shadowed, no blocking
\* object" whatever buildings are on the stage: its task is never put in the
\* queue, the main thread never runs a shadow check for it, its response is
\* the night response and the step that sends it leaves the queue, the ids
\* and the result map alone; the UI's query at such an elevation shows NIGHT
\* and casts no ray.
C1_NightShortCircuit ==
    /\ [](\A k \in 1..Len(request_queue) : request_queue[k].elevation > 0)
    /\ [](query_log.source = "api" => \A e \in query_log.elevations : e > 0)
    /\ []((query_log.source = "ui" /\ \E e \in query_log.elevations : e <= 0)
             => (~query_log.cast /\ ~ray_out.called /\ query_log.label = "NIGHT"))
    /\ []((last_response.response.kind # "none" /\ last_response.elevation <= 0)
             => (last_response.response = NightResponse /\ ~ray_out.called))
    /\ [][(last_response'.response.kind # "none" /\ last_response'.elevation <= 0)
             => UNCHANGED <<request_queue, result_map, next_request_id>>]_vars

\* the night response for a sun on the horizon, with a building on the stage
\* and a daytime task waiting in the queue
C1_Witness ==
    /\ last_response.response = NightResponse
    /\ last_response.elevation = 0
    /\ stage_buildings.exists /\ Len(stage_buildings.meshes) > 0
    /\ Len(request_queue) > 0

\* the night response on a stage without buildings
C1_WitnessNoBuildings ==
    /\ last_response.response = NightResponse
    /\ last_response.elevation < 0
    /\ ~stage_buildings.exists

\* C5: every query that runs while a map load is in progress sees either the
\* buildings as they were before the load or the buildings as the load leaves
\* them.
C5_QueriesSeeCompleteSets ==
    [][(ui.load_pc = "buildings_loaded" /\ ui'.load_pc = "idle")
          => \A buildings_prim \in ui.seen :
                \/ buildings_prim = ui.old_set
                \/ buildings_prim = stage_buildings']_vars

----------------------------------------------------------------------------
(* Claims about the faces of the prisms, checked under SpecBuildings *)

\* C11: a mesh made from a footprint of n points has n + 2 faces: the bottom
\* cap n-1..0, the top cap n..2n-1 and n quads, quad i being
\* (i, (i+1) mod n, ((i+1) mod n) + n, i + n); the faces use up the index
\* list, every index is in [0, 2n), and the fan triangulation of the ray
\* caster gives 2(n-2) + 2n triangles.
C11_PrismFaces ==
    \A mesh \in StageMeshes :
        LET n == Len(mesh.points) \div 2
            face_verts(f) == FaceVerts(mesh.face_counts, mesh.face_indices, f)
        IN  /\ n >= 3
            /\ Len(mesh.points) = 2 * n
            /\ Len(mesh.face_counts) = n + 2
            /\ Len(mesh.face_indices) = SumTo(mesh.face_counts, n + 2)
            /\ face_verts(1) = [k \in 1..n |-> n - k]
            /\ face_verts(2) = [k \in 1..n |-> n + k - 1]
            /\ \A i \in 0..(n - 1) :
                  face_verts(i + 3) = <<i, (i + 1) % n, ((i + 1) % n) + n, i + n>>
            /\ \A k \in 1..Len(mesh.face_indices) : mesh.face_indices[k] \in 0..(2 * n - 1)
            /\ Len(MeshTris(mesh)) = 2 * (n - 2) + 2 * n

\* a triangle (n = 3) and a square (n = 4) made by create_buildings_from_data
C11_Witness ==
    /\ geo_out.op = "create_buildings_from_data"
    /\ \E mesh \in StageMeshes : Len(mesh.points) = 6 /\ Len(MeshTris(mesh)) = 8
    /\ \E mesh \in StageMeshes : Len(mesh.points) = 8 /\ Len(MeshTris(mesh)) = 12

----------------------------------------------------------------------------
(* Claims about the terrain sampler, checked under SpecProjection *)

\* (angle - grid_min) / spacing: the position of an angle in cells from the
\* grid's first row or column
CellOffset(angle, center, spacing, cells) ==
    LET offset == FracAdd(angle, FracOfInt(-GridMin(center, spacing, cells)))
    IN  Frac(offset.num, offset.den * spacing)

\* the position of the last query in the grid, <<rows, columns>>, from the
\* latitude and longitude the sampler computed
QueryCell ==
    LET gps == The(geo_out.gps)
        gen == terrain_generator
    IN  <<CellOffset(gps[1], The(gen.center_lat), The(gen.lat_spacing),
                     Rows(The(gen.elevation_grid))),
          CellOffset(gps[2], The(gen.center_lon), The(gen.lon_spacing),
                     Cols(The(gen.elevation_grid)))>>

\* a position in cells outside [0, cells)
OutsideCells(q, cells) == q.num < 0 \/ ~FracLess(q, FracOfInt(cells))

\* the last operation sampled the terrain
Sampled == geo_out.op \in {"get_elevation_at_scene_coords", "round_trip"}

\* C12: without a grid the sampler returns 0; with a grid, a query whose
\* position in cells is outside [0, rows) x [0, cols), by however little,
\* returns 0.
C12_OutsideGridReturnsZero ==
    Sampled =>
        IF terrain_generator.elevation_grid = {} THEN geo_out.elevation = 0
        ELSE (\/ OutsideCells(QueryCell[1], Rows(The(terrain_generator.elevation_grid)))
              \/ OutsideCells(QueryCell[2], Cols(The(terrain_generator.elevation_grid))))
                 => geo_out.elevation = 0

\* index i is one of the indices 0..cells-1 closest to the position q
NearestIndex(i, q, cells) ==
    \A k \in 0..(cells - 1) : Abs(q.num - i * q.den) <= Abs(q.num - k * q.den)

\* a position in cells between the first and the last sample
InsideExtent(q, cells) == q.num >= 0 /\ ~FracLess(FracOfInt(cells - 1), q)

\* C13: a query inside the grid's extent returns the value stored at a
\* sample whose row and column are closest to the query's position.
C13_NearestCell ==
    (Sampled /\ terrain_generator.elevation_grid # {}) =>
        LET grid == The(terrain_generator.elevation_grid)
        IN  (InsideExtent(QueryCell[1], Rows(grid)) /\ InsideExtent(QueryCell[2], Cols(grid)))
               => \E i \in 0..(Rows(grid) - 1), j \in 0..(Cols(grid) - 1) :
                     /\ NearestIndex(i, QueryCell[1], Rows(grid))
                     /\ NearestIndex(j, QueryCell[2], Cols(grid))
                     /\ geo_out.elevation = grid[i + 1][j + 1]

\* the row or column index int(q) is outside 0..cells-1
OutsideIndex(q, cells) == Trunc(q) < 0 \/ Trunc(q) >= cells

\* the last query had a row or column index outside the grid
SampledOutside ==
    /\ Sampled
    /\ terrain_generator.elevation_grid # {}
    /\ \/ OutsideIndex(QueryCell[1], Rows(The(terrain_generator.elevation_grid)))
       \/ OutsideIndex(QueryCell[2], Cols(The(terrain_generator.elevation_grid)))

----------------------------------------------------------------------------
(* Claims about the grid analysis, checked under SpecGrid *)

\* what analyze_grid gave is the single-point query at every lattice point:
\* N * N entries, one per lattice point, at the height of the centre, each
\* with the answer of is_point_in_shadow, and the percentage of the shadowed
GridAnswer ==
    LET N == geo_out.grid_size
        results == geo_out.results
        center == geo_out.center
        spacing == geo_out.grid_spacing
    IN  /\ ~geo_out.raised
        /\ Len(results) = N * N
        /\ \A i, j \in 0..(N - 1) :
              \E k \in 1..Len(results) :
                 /\ 2 * results[k].point[1] = 2 * center[1] - (N - 1) * spacing + 2 * i * spacing
                 /\ 2 * results[k].point[3] = 2 * center[3] - (N - 1) * spacing + 2 * j * spacing
        /\ \A k \in 1..Len(results) :
              /\ results[k].point[2] = center[2]
              /\ results[k].is_shadowed =
                     IsPointInShadow(stage_buildings, results[k].point, geo_out.sun_direction,
                                     DefaultMaxDistance).is_shadowed
        /\ \E p \in geo_out.shadow_percentage :
              p.num * (N * N)
                 = p.den * 100 * Cardinality({ k \in 1..Len(results) : results[k].is_shadowed })

\* C15: for every grid size, analyze_grid gives N * N results, one per
\* lattice point, at the height of the centre, each equal to the
\* single-point query, and the percentage (number shadowed) / (N * N) * 100.
C15_GridResults == geo_out.op = "analyze_grid" => GridAnswer

\* the same for the grid sizes from 1 on
C15_GridResultsFromOne ==
    (geo_out.op = "analyze_grid" /\ geo_out.grid_size >= 1) => GridAnswer

\* a 2 x 2 grid of which some points, not all, are shadowed
C15_WitnessFromOne ==
    /\ geo_out.op = "analyze_grid" /\ geo_out.grid_size = 2 /\ ~geo_out.raised
    /\ \E k \in 1..4 : geo_out.results[k].is_shadowed
    /\ \E k \in 1..4 : ~geo_out.results[k].is_shadowed

----------------------------------------------------------------------------
(* Claims about the ray/triangle test, checked under SpecTriangle *)

\* the call of _ray_triangle_intersect of the scenario: the triangle
\* (0,0,0), (1,0,0), (0,0,1) m and the ray from (0.2,1,0.2) m straight down
ScenarioCall ==
    /\ geo_out.op = "ray_triangle_intersect"
    /\ <<geo_out.v0, geo_out.v1, geo_out.v2>>
          = <<<<0, 0, 0>>, <<Scale, 0, 0>>, <<0, 0, Scale>>>>
    /\ 5 * geo_out.ray_origin[1] = Scale
    /\ geo_out.ray_origin[2] = Scale
    /\ 5 * geo_out.ray_origin[3] = Scale
    /\ geo_out.ray_direction = [v |-> <<0, -1, 0>>, len |-> 1]

\* C16: _ray_triangle_intersect returns a distance only when
\* |edge1 . (dir x edge2)| >= 1e-6, 0 <= u <= 1, v >= 0, u + v <= 1 and
\* t > 1e-6, the distance being t; in the scenario it returns 1.0.  With
\* d = dir * len, A = edge1 . (d x edge2): a = A / len, u = (s . h) / A,
\* v = (d . q) / A, t = len * (edge2 . q) / A.
C16_RayTriangleConditions ==
    geo_out.op = "ray_triangle_intersect" =>
        LET d == geo_out.ray_direction
            edge1 == Sub(geo_out.v1, geo_out.v0)
            edge2 == Sub(geo_out.v2, geo_out.v0)
            h == Cross(d.v, edge2)
            A == Dot(edge1, h)
            s == Sub(geo_out.ray_origin, geo_out.v0)
            q == Cross(s, edge1)
            t == geo_out.result.t
        IN  /\ geo_out.result.hit =>
                /\ Abs(A) > (d.len * Scale * Scale - 1) \div EpsDen
                /\ Dot(s, h) * A >= 0 /\ Dot(s, h) * A <= A * A
                /\ Dot(d.v, q) * A >= 0
                /\ (Dot(s, h) + Dot(d.v, q)) * A <= A * A
                /\ t.den > 0 /\ t.num * A = d.len * Dot(edge2, q) * t.den
                /\ t.num > (t.den * Scale) \div EpsDen
            /\ ScenarioCall => (geo_out.result.hit /\ t.num = Scale * t.den)

\* the scenario, answered with 1.0 m
C16_Witness == ScenarioCall /\ geo_out.result = SomeT(FracOfInt(Scale))

\* a ray that meets the triangle's plane inside the triangle, behind its
\* origin, and gets no distance
C16_WitnessBehind ==
    /\ geo_out.op = "ray_triangle_intersect"
    /\ ~geo_out.result.hit
    /\ MollerTrumbore(geo_out.ray_origin, geo_out.ray_direction,
                      geo_out.v0, geo_out.v1, geo_out.v2).kind = "t"

----------------------------------------------------------------------------
(* The tower, the sun in the south at 30 degrees, and the ground 5 m north  *)
(* of the footprint                                                          *)

\* the query of the scenario has just run against the tower
TowerQueryNorth ==
    /\ geo_out.op = "query_scene"
    /\ geo_out.gps = <<10, 0>>
    /\ geo_out.azimuth = 180
    /\ geo_out.elevation = 30
    /\ stage_buildings.meshes = <<PrismMesh(TowerBuilding.id,
                                            SceneCoords(converter, TowerBuilding.coordinates),
                                            0, 20 * Scale)>>

\* C17: with the square tower of side 10 m and height 20 m centred on the
\* reference point, the sun at azimuth 180 and elevation 30, the ground-level
\* point 5 m due north of the footprint is shadowed and the blocking object
\* is the tower's prim.
C17_TowerShadowsNorth ==
    TowerQueryNorth =>
        /\ ray_out.called
        /\ ray_out.point = <<0, 0, 10 * Scale>>
        /\ ray_out.is_shadowed
        /\ ray_out.blocking = {BuildingPath(TowerBuilding.id)}

C17_Witness == TowerQueryNorth /\ ray_out.is_shadowed /\ ray_out.sun_direction = <<0, -8, 15>>

\* the same query is sunlit from the south side, and behind the kiosk
C17_WitnessSouthSunlit ==
    /\ geo_out.op = "query_scene" /\ geo_out.gps = <<-10, 0>> /\ geo_out.azimuth = 180
    /\ geo_out.elevation = 30 /\ ~ray_out.is_shadowed

----------------------------------------------------------------------------
(* calculate_sun_position: totality *)

\* C18: calculate_sun_position returns a triple for every latitude of
\* [-90, 90], every longitude and every instant: it never raises.
C18_SunPositionTotal ==
    geo_out.op = "calculate_sun_position" => ~geo_out.raised

\* what holds instead: the call raises only in math.asin, on a sin_el beyond
\* 1 in magnitude, and every cos_az that reaches math.acos is within [-1, 1]
C18_RaisesOnlyInAsin ==
    geo_out.op = "calculate_sun_position" =>
        /\ geo_out.raised <=> \E s \in geo_out.sin_el : Abs(s) > One
        /\ \A c \in geo_out.cos_az : Abs(c) <= One

\* the sun at the zenith: the latitude is the declination and ha = 0
C18_WitnessZenithRaises ==
    /\ geo_out.op = "calculate_sun_position" /\ geo_out.raised
    /\ geo_out.latitude = geo_out.dec /\ geo_out.ha = 0

\* the observer at a pole: a triple is returned
C18_WitnessPole ==
    /\ geo_out.op = "calculate_sun_position" /\ ~geo_out.raised
    /\ geo_out.latitude = 90

----------------------------------------------------------------------------
(* BuildingLoader: heights at ingestion *)

Ingested == geo_out.op \in {"_parse_osm_data", "load_scene_data"} /\ geo_out.buildings # <<>>

\* the explicit height of a tag map: the height tag when it parses, else
\* building:height when it parses
ExplicitHeight(tags) ==
    LET parsed(tag) == IF tag = {} THEN {} ELSE ParseHeightTag(The(tag))
    IN  IF parsed(tags.height) # {} THEN parsed(tags.height) ELSE parsed(tags.building_height)

\* the levels of a tag map when the tag parses
ParsedLevels(tags) == IF tags.levels = {} THEN {} ELSE ParseFloat(The(tags.levels))

\* C19: the height of an ingested building is the explicit height tag when
\* it parses, otherwise 3 m times the levels when the levels tag parses,
\* otherwise 10 m, and _parse_osm_data and load_scene_data give the same
\* tags the same height.
C19_HeightPriority ==
    Ingested =>
        \A k \in 1..Len(geo_out.buildings) :
            geo_out.buildings[k].height =
                IF ExplicitHeight(geo_out.tags) # {} THEN The(ExplicitHeight(geo_out.tags))
                ELSE IF ParsedLevels(geo_out.tags) # {}
                THEN 3 * The(ParsedLevels(geo_out.tags))
                ELSE 10 * Scale

\* an explicit height of 12.5 m beside three levels, from load_scene_data
C19_Witness ==
    /\ Ingested /\ geo_out.op = "load_scene_data"
    /\ geo_out.tags.height = {<<"1", "2", ".", "5", " ", "m">>}
    /\ geo_out.tags.levels = {<<"3">>}
    /\ geo_out.buildings[1].height = 125

\* levels used under a height tag that does not parse, from _parse_osm_data
C19_WitnessLevels ==
    /\ Ingested /\ geo_out.op = "_parse_osm_data"
    /\ geo_out.tags.height = {<<"t", "a", "l", "l">>}
    /\ geo_out.tags.building_height = {}
    /\ geo_out.tags.levels = {<<" ", "4", " ">>}
    /\ geo_out.buildings[1].height = 12 * Scale

\* C20: every building record produced by ingestion has a height > 0,
\* whatever the tags hold.
C20_HeightPositive ==
    Ingested => \A k \in 1..Len(geo_out.buildings) : geo_out.buildings[k].height > 0

\* what holds instead: a height is positive unless the tag it was read from
\* holds a number that is not positive
C20_PositiveUnlessTagged ==
    Ingested =>
        \A k \in 1..Len(geo_out.buildings) :
            \/ geo_out.buildings[k].height > 0
            \/ \E v \in ExplicitHeight(geo_out.tags) \cup ParsedLevels(geo_out.tags) : v <= 0

----------------------------------------------------------------------------
(* The Julian date *)

\* C21: the day number of the calendar day after a date is the date's day
\* number plus 1, across month ends, year ends and leap days; the part added
\* to the day number is (hour - 12)/24 + minute/1440 + second/86400; and
\* 2000-01-01 12:00:00 is 2451545.0, where t = 0.
C21_JulianDayCount ==
    geo_out.op = "_get_julian_date" =>
        /\ GetJulianDate(NextDay(geo_out.dt)).days = geo_out.jd.days + 1
        /\ geo_out.jd.seconds * 1440
             = (geo_out.dt.hour - 12) * 3600 * 1440 + geo_out.dt.minute * 86400
               + geo_out.dt.second * 1440
        /\ (geo_out.dt = [year |-> 2000, month |-> 1, day |-> 1, hour |-> 12, minute |-> 0,
                          second |-> 0])
             => (geo_out.jd = [days |-> 2451545, seconds |-> 0] /\ CenturiesIsZero(geo_out.jd))
        /\ CenturiesIsZero(geo_out.jd)
             => (geo_out.dt.year = 2000 /\ geo_out.dt.month = 1 /\ geo_out.dt.day = 1
                 /\ geo_out.dt.hour = 12)

\* the last day of February of a century year that has no leap day
C21_Witness ==
    /\ geo_out.op = "_get_julian_date"
    /\ geo_out.dt.year = 1900 /\ geo_out.dt.month = 2 /\ geo_out.dt.day = 28
    /\ GetJulianDate(NextDay(geo_out.dt)).days = geo_out.jd.days + 1

\* J2000.0
C21_WitnessEpoch ==
    /\ geo_out.op = "_get_julian_date"
    /\ geo_out.jd = [days |-> 2451545, seconds |-> 0]

----------------------------------------------------------------------------
(* The sun direction vector *)

\* C22: the vector get_sun_direction_vector returns has length 1, its
\* vertical component is -sin(elevation), and that component is negative
\* whenever the elevation is above 0.
C22_UnitVectorPointingDown ==
    geo_out.op = "get_sun_direction_vector" =>
        LET d == geo_out.direction
        IN  /\ Dot(d.v, d.v) = d.den * d.den
            /\ d.v[2] * geo_out.elevation.den = -(geo_out.elevation.sin * d.den)
            /\ geo_out.elevation.sin > 0 => d.v[2] < 0

\* the sun in the south-west, 28 degrees above the horizon
C22_Witness ==
    /\ geo_out.op = "get_sun_direction_vector"
    /\ geo_out.azimuth = [sin |-> -3, cos |-> -4, den |-> 5]
    /\ geo_out.elevation = [sin |-> 8, cos |-> 15, den |-> 17]
    /\ geo_out.direction = [v |-> <<-45, -40, 60>>, den |-> 85]

----------------------------------------------------------------------------
(* The cache key of a geographic area *)

TwoKeys == geo_out.op = "generate_cache_key" /\ Len(geo_out.calls) = 2

SameArea(a, b) == a.latitude = b.latitude /\ a.longitude = b.longitude /\ a.radius = b.radius

\* C23: the same (latitude, longitude, radius) always yields the same
\* (city_name, bounds_hash), and two different locations or radii yield
\* different bounds_hash values.
C23_KeyDiscriminates ==
    TwoKeys =>
        /\ SameArea(geo_out.calls[1], geo_out.calls[2]) => geo_out.calls[1].key = geo_out.calls[2].key
        /\ ~SameArea(geo_out.calls[1], geo_out.calls[2])
             => geo_out.calls[1].key.bounds_hash # geo_out.calls[2].key.bounds_hash

\* what holds instead: the key is a function of the area, and areas with
\* different hashes are different areas
C23_KeyDeterministic ==
    TwoKeys =>
        /\ SameArea(geo_out.calls[1], geo_out.calls[2]) => geo_out.calls[1].key = geo_out.calls[2].key
        /\ geo_out.calls[1].key.bounds_hash # geo_out.calls[2].key.bounds_hash
             => ~SameArea(geo_out.calls[1], geo_out.calls[2])

\* London and New York have different hashes
C23_WitnessCities ==
    /\ TwoKeys
    /\ geo_out.calls[1].latitude = 407128000 /\ geo_out.calls[2].latitude = 515074000
    /\ geo_out.calls[1].key.bounds_hash # geo_out.calls[2].key.bounds_hash

----------------------------------------------------------------------------
(* Terrain vertices and the converter's projection *)

\* a terrain mesh stands, and the generator and the converter hold the same
\* reference point
SharedReference ==
    /\ stage_terrain.exists
    /\ converter.reference_lat # {} /\ converter.reference_lon # {}
    /\ terrain_generator.reference_lat = converter.reference_lat
    /\ terrain_generator.reference_lon = converter.reference_lon

\* the latitude and longitude of grid sample (i, j), 0-based
SampleGps(gen, i, j) ==
    <<GridMin(The(gen.center_lat), The(gen.lat_spacing), Rows(The(gen.elevation_grid)))
        + i * The(gen.lat_spacing),
      GridMin(The(gen.center_lon), The(gen.lon_spacing), Cols(The(gen.elevation_grid)))
        + j * The(gen.lon_spacing)>>

\* the vertex of the mesh for grid sample (i, j), 0-based
SampleVertex(gen, i, j) == stage_terrain.points[i * Cols(The(gen.elevation_grid)) + j + 1]

\* C24: with one reference point, the scene (x, z) of the terrain vertex of
\* every grid sample is what gps_to_scene_coords returns for the sample's
\* latitude and longitude.
C24_TerrainSharesProjection ==
    SharedReference =>
        \A i \in 0..(Rows(The(terrain_generator.elevation_grid)) - 1),
           j \in 0..(Cols(The(terrain_generator.elevation_grid)) - 1) :
            LET gps == SampleGps(terrain_generator, i, j)
                xz == The(GpsToSceneCoords(converter, gps[1], gps[2]).value)
                vertex == SampleVertex(terrain_generator, i, j)
            IN  vertex[1] = xz[1] /\ vertex[3] = xz[2]

\* what holds instead: the vertex is the mirror image of the projected point
\* through the reference point
C24_TerrainMirrorsProjection ==
    SharedReference =>
        \A i \in 0..(Rows(The(terrain_generator.elevation_grid)) - 1),
           j \in 0..(Cols(The(terrain_generator.elevation_grid)) - 1) :
            LET gps == SampleGps(terrain_generator, i, j)
                xz == The(GpsToSceneCoords(converter, gps[1], gps[2]).value)
                vertex == SampleVertex(terrain_generator, i, j)
            IN  vertex[1] = -xz[1] /\ vertex[3] = -xz[2]

C24_WitnessShared == SharedReference /\ geo_out.op = "create_terrain_mesh"

----------------------------------------------------------------------------
(* Claims about the REST server, checked under SpecServer *)

\* the request ids in use: queued, stored in result_map, or waited for
IdsInUse ==
    { request_queue[k].request_id : k \in 1..Len(request_queue) }
      \cup DOMAIN result_map
      \cup { clients[c].request_id : c \in { d \in Clients : clients[d].pc = "waiting" } }

\* no id is held twice, and every id in use is below the counter
IdsDistinct ==
    /\ \A c, d \in Clients :
          (c # d /\ clients[c].pc = "waiting" /\ clients[d].pc = "waiting")
             => clients[c].request_id # clients[d].request_id
    /\ \A j, k \in 1..Len(request_queue) :
          j # k => request_queue[j].request_id # request_queue[k].request_id
    /\ \A id \in IdsInUse : id < next_request_id

\* the result _perform_shadow_check computes for a request on the stage
OwnResult(request) ==
    PerformShadowCheck(NewConverter, stage_buildings, request.latitude, request.longitude,
                       request.azimuth, request.elevation).result

\* C25: no two requests get the same request id (the ids in use are distinct,
\* a new id is the counter's value and the counter only grows), and a
\* response that carries a result is built from the result of the shadow
\* check for the request's own latitude, longitude and sun angles.
C25_OwnIdOwnResult ==
    /\ []IdsDistinct
    /\ [][/\ next_request_id' >= next_request_id
          /\ \A c \in Clients :
                (clients[c].pc = "idle" /\ clients'[c].pc = "waiting")
                   => /\ clients'[c].request_id = next_request_id
                      /\ next_request_id' = next_request_id + 1
          /\ \A c \in Clients :
                (/\ clients[c].pc = "waiting" /\ clients'[c].pc = "idle"
                 /\ last_response'.response.kind \in {"result", "error"})
                   => /\ last_response'.request_id = {clients[c].request_id}
                      /\ last_response'.response = ResultResponse(OwnResult(clients[c]))]_vars

\* a request for the point under the building is answered "shadowed" while
\* the result of a request for the point beside it lies in result_map
C25_Witness ==
    /\ last_response.response.kind = "result"
    /\ last_response.response.is_shadowed
    /\ \E c \in Clients : clients[c].pc = "waiting" /\ clients[c].longitude = BuildingsRef[2] - 10
    /\ \E id \in DOMAIN result_map : ~result_map[id].is_shadowed /\ result_map[id].error_msg = {}

\* the ids handed out
RequestIds == 0..(MaxRequests - 1)

\* the ray of the shadow check for a task ({} if none is cast)
OwnRay(task) ==
    PerformShadowCheck(NewConverter, stage_buildings, task.latitude, task.longitude,
                       task.azimuth, task.elevation).ray

C26_WitnessTimeout ==
    /\ last_response.response.kind = "timeout"
    /\ \E k \in 1..Len(request_queue) : {request_queue[k].request_id} = last_response.request_id

\* the ids of the requests whose handlers are still waiting
WaitingIds == { clients[c].request_id : c \in { d \in Clients : clients[d].pc = "waiting" } }

\* C27: result_map holds entries only for requests that are still waiting:
\* a request that was answered, with a result or with a timeout, has no
\* entry left.
C27_ResultMapOnlyWaiting == DOMAIN result_map \subseteq WaitingIds

\* what holds instead: a result that is delivered leaves the map with the
\* response, and an entry stays only for a request that is waiting or that
\* timed out before its task was processed
C27_DeliveredResultsLeave ==
    [][\A c \in Clients :
          (/\ clients[c].pc = "waiting" /\ clients'[c].pc = "idle"
           /\ last_response'.response.kind \in {"result", "error"})
             => /\ clients[c].request_id \in DOMAIN result_map
                /\ clients[c].request_id \notin DOMAIN result_map']_vars

\* a result stored for a request that had timed out
C27_WitnessLeftover ==
    /\ query_log.source = "api"
    /\ \E id \in DOMAIN result_map : id \notin WaitingIds

----------------------------------------------------------------------------
(* C28 *)

\* the attempt that succeeds first, or MaxAttempts + 1 when none does
FirstOk(outcomes) ==
    IF \E k \in 1..MaxAttempts : outcomes[k] = "ok"
    THEN CHOOSE k \in 1..MaxAttempts :
             outcomes[k] = "ok" /\ \A j \in 1..(k - 1) : outcomes[j] # "ok"
    ELSE MaxAttempts + 1

\* n posts with a sleep between each two of them and none after the last
PostsWithSleepsBetween(n) ==
    [k \in 1..(2 * n - 1) |-> IF k % 2 = 1 THEN "post" ELSE "sleep"]

C28_WitnessCached ==
    /\ building_loader.calls = 2
    /\ building_loader.out.trace = <<>>
    /\ building_loader.out.outcomes = [k \in 1..MaxAttempts |-> "exception"]
    /\ building_loader.out.result.buildings # <<>>

C28_WitnessFetchAgain ==
    /\ building_loader.calls = 2
    /\ building_loader.out.trace = <<"post", "sleep", "post">>
    /\ DOMAIN building_loader.cache = {building_loader.out.cache_key}

----------------------------------------------------------------------------
(* C29 *)

\* the concatenation of a list of lists
RECURSIVE Concat(_)
Concat(lists) == IF lists = <<>> THEN <<>> ELSE Head(lists) \o Concat(Tail(lists))

\* the batch (1-based) that location idx (0-based) goes out with
BatchOf(idx) == idx \div BatchSize + 1

\* the call fetched a grid of more than BATCH_SIZE locations
BatchedCall(out) ==
    /\ out.op = "load_elevation_grid"
    /\ out.posted # <<>>
    /\ out.grid_resolution * out.grid_resolution > BatchSize

C29_WitnessCountDiffers ==
    /\ terrain_loader.out.op = "load_elevation_grid"
    /\ terrain_loader.out.outcomes = <<"ok", "short">>
    /\ terrain_loader.out.result = {}
    /\ terrain_loader.cache = <<>>

----------------------------------------------------------------------------
(* C30 *)

\* C30: with buildings created at reference point R and not cleared since,
\* whatever the list was, load_reference_point_from_scene on a new
\* converter returns true and the converter has exactly R; with no
\* buildings created yet, or cleared since, it returns false, and
\* _perform_shadow_check answers that no buildings are loaded and casts no ray.
C30_ReferenceFromScene ==
    /\ geo_out.op = "load_reference_point_from_scene" =>
         IF geo_out.scene # {}
         THEN /\ geo_out.loaded
              /\ geo_out.reference_lat = {The(geo_out.scene)[1]}
              /\ geo_out.reference_lon = {The(geo_out.scene)[2]}
         ELSE ~geo_out.loaded
    /\ geo_out.op = "_perform_shadow_check" /\ geo_out.scene = {} =>
         /\ geo_out.result.error_msg = {"No buildings loaded"}
         /\ ~geo_out.cast
         /\ ~ray_out.called

\* the reference point read back from a stage whose building list was
\* empty: the prim has no mesh
C30_WitnessEmptyList ==
    /\ geo_out.op = "load_reference_point_from_scene"
    /\ geo_out.loaded
    /\ geo_out.scene = {<<-Degrees(60), Degrees(100)>>}
    /\ stage_buildings.meshes = <<>>

\* a query after clear_buildings: the UI's converter still has its
\* reference point, the stage has none
C30_WitnessCleared ==
    /\ geo_out.op = "_perform_shadow_check"
    /\ geo_out.scene = {}
    /\ converter.reference_lat # {}
    /\ geo_out.result.error_msg = {"No buildings loaded"}

\* a load before any buildings were created
C30_WitnessBefore ==
    /\ geo_out.op = "load_reference_point_from_scene"
    /\ ~geo_out.loaded
    /\ converter = NewConverter

====
